---- MODULE Spec2Model ----
(***************************************************************************)
(* Model of the streaming chat orchestration of uiautodev                  *)
(* (src/uiautodev/services/llm_service.py, src/uiautodev/app.py) and of    *)
(* its interactive code execution (utils/interactive_executor.py).         *)
(*                                                                         *)
(* One run of generate_chat_completion_stream is a state machine: the      *)
(* environment (the LLM provider and the retrieval endpoint) supplies the  *)
(* status of each upstream call, the lines of each response, network       *)
(* failures and retrieval results; the generator decodes the lines,        *)
(* accumulates tool calls, runs the tool round and loops.                  *)
(*                                                                         *)
(* `trace` is the ordered log of everything the run does that the other    *)
(* parties can see: the events yielded to the caller (content, error,      *)
(* eos), the upstream calls issued (call), the data lines read from each   *)
(* response (line), the end of every response (resp), the requested calls  *)
(* handled in a tool round (exec) and the retrieval calls (rag).           *)
(*                                                                         *)
(* The helpers the run calls are modelled as state machines of their own:  *)
(* RagSpec is one call of the retrieval client, BuildSpec one call of the  *)
(* prompt builder.  AppSpec is one request to the /api/llm/chat endpoint   *)
(* of app.py.  PxSpec is a set of executions of execute_interactive_code   *)
(* running in threads of one process.  Each specification leaves the       *)
(* variables of the others at their unused values.                         *)
(***************************************************************************)
EXTENDS Integers, Sequences, FiniteSets, TLC

\* ------------------------------------------------------------------------
\* Bounds of the model
\* ------------------------------------------------------------------------

\* Upstream lines read in one run, over all its responses.
MaxLines == 3

\* Results the retrieval endpoint returns to one query.
MaxResults == 2

\* Entries of the history handed to the prompt builder.
MaxHistory == 2

\* Upstream lines read by one request to the endpoint of app.py.
MaxAppLines == 3
MaxExecutions == 2

\* ------------------------------------------------------------------------
\* Program constants
\* ------------------------------------------------------------------------

max_iterations == 3

RAG_TOOL_NAME == "search_uiautomator2_code_snippets"

\* Python None / an absent dictionary key, for the string-valued fields.
None == "None"

\* ------------------------------------------------------------------------
\* Tool-call arguments.  An argument string is a sequence of characters;
\* the character "q" stands for the member  "query":"x",  "r" for the
\* member  "query":"y",  and "1" for a
\* JSON number, so that  {q}  is an object with a usable query,  {}  an
\* object without one,  1  valid JSON that is not an object, and every
\* other string (for instance the fragment  {q ) is not valid JSON.
\* ------------------------------------------------------------------------

ArgObjectWithQuery == <<"{", "q", "}">>
ArgObjectOtherQuery == <<"{", "r", "}">>
ArgObjectNoQuery == <<"{", "}">>
ArgNumber == <<"1">>

\* json.loads(arguments) followed by arguments.get("query") and the
\* emptiness test, as an outcome:
\*   "query"      the else branch is taken and the retrieval client called
\*   "bad_json"   json.JSONDecodeError, caught
\*   "no_query"   ValueError raised by the code itself, caught
\*   "not_object" AttributeError on .get of a non-mapping, NOT caught
\* An absent "arguments" key (modelled by the empty sequence) defaults to
\* the text "{}".
ParseArgs(args) ==
    IF args = <<>> THEN "no_query"
    ELSE IF args \in {ArgObjectWithQuery, ArgObjectOtherQuery} THEN "query"
    ELSE IF args = ArgObjectNoQuery THEN "no_query"
    ELSE IF args = ArgNumber THEN "not_object"
    ELSE "bad_json"

\* The query carried by a usable argument string.
QueryOf(args) == IF args = ArgObjectOtherQuery THEN "y" ELSE "x"

\* ------------------------------------------------------------------------
\* Upstream lines
\* ------------------------------------------------------------------------

\* One element of delta.tool_calls.  A field the provider left out, or sent
\* as null or as the empty string, is None / <<>> (all are falsy for the
\* merge).
TcDelta(index, id, name, arguments) ==
    [index |-> index, id |-> id, type |-> IF id = None THEN None ELSE "function",
     name |-> name, arguments |-> arguments]

\* One accumulated (or fully formed) tool call: the dictionary
\*   {"id":.., "type":.., "function": {"name":.., "arguments":..}}
\* flattened; None / <<>> stand for an absent key.
EmptyToolCall == [id |-> None, type |-> None, name |-> None, arguments |-> <<>>]

\* A decoded data line  {"choices":[{"delta":{...},"finish_reason":..,
\* "message":{"tool_calls":[...]}}]}.
Chunk(tcs, has_content, content, finish_reason, message_tool_calls) ==
    [kind |-> "chunk", tool_calls |-> tcs, has_content |-> has_content,
     content |-> content, finish_reason |-> finish_reason,
     message_tool_calls |-> message_tool_calls]

NoContentChunk(tcs, finish_reason, message_tool_calls) ==
    Chunk(tcs, FALSE, <<>>, finish_reason, message_tool_calls)

FullRagCall ==
    [id |-> "m1", type |-> "function", name |-> RAG_TOOL_NAME,
     arguments |-> ArgObjectOtherQuery]

\* The chunks the provider may send.
Chunks ==
    { Chunk(<<>>, TRUE, <<"a">>, None, <<>>),
      Chunk(<<>>, TRUE, <<>>, None, <<>>),
      NoContentChunk(<<TcDelta(0, "t1", RAG_TOOL_NAME, <<"{", "q">>)>>, None, <<>>),
      NoContentChunk(<<TcDelta(0, None, None, <<"}">>)>>, None, <<>>),
      NoContentChunk(<<TcDelta(0, "t3", RAG_TOOL_NAME, ArgNumber)>>, None, <<>>),
      Chunk(<<TcDelta(1, "t2", "other_tool", <<"1">>)>>, TRUE, <<"b">>, None, <<>>),
      NoContentChunk(<<>>, "stop", <<>>),
      NoContentChunk(<<>>, "tool_calls", <<FullRagCall>>) }

\* Lines that are skipped without touching the state: blank lines
\* (line 452) and lines without the "data: " prefix (line 464).
IgnoredLines == {"blank", "no_data_prefix"}

\* Data lines whose decoding raises json.JSONDecodeError or IndexError
\* (line 550): a payload that is not JSON, and  {"choices": []}.
SkippedLines == {"bad_json", "empty_choices"}

\* Data lines whose decoding raises another exception, which only the
\* handler of line 560 catches: a payload that is JSON but not an object,
\* {"choices": null}  and  {"choices":[{"delta": null}]}.
FatalLines == {"non_object_payload", "null_choices", "null_delta"}

\* Statuses other than 200 the provider may answer with, and the bodies of
\* such answers.
ErrorStatuses == {401, 500}

ErrorBodies == {"body_1", "body_2"}

\* ------------------------------------------------------------------------
\* State
\* ------------------------------------------------------------------------

VARIABLES
    pc,                     \* position of the generator
    api_key,                \* DEEPSEEK_API_KEY is configured
    history,                \* request_data.history
    query,                  \* the local of the tool round (line 590)
    messages,               \* the message list sent upstream
    tool_choice_setting,
    iteration_count,
    full_response_content,
    tool_calls_to_process,  \* <<>> stands for None and for []
    tool_index,             \* position of the for loop of the tool round
    finish_seen,            \* the open response carried a finish_reason
    client_open,            \* the httpx.AsyncClient of the run
    response_open,          \* the response stream of the current call
    lines_read,
    trace

\* The state of one run of generate_chat_completion_stream.
run_vars == <<pc, api_key, history, query, messages, tool_choice_setting, iteration_count,
              full_response_content, tool_calls_to_process, tool_index, finish_seen,
              client_open, response_open, lines_read, trace>>

\* One call of the retrieval client (_fetch_rag_code_snippets of
\* llm_service.py, fetch_rag_code_snippets of llm/tools/rag.py).
VARIABLES
    rag_pc,                 \* position inside the call
    rag_impl,               \* which of the two implementations is called
    rag_env,                \* what the retrieval endpoint does
    top_k,
    results,                \* search_data["results"]: the snippet texts
    rag_i,                  \* snippets formatted so far
    context_str,
    rag_return              \* the returned string

rag_vars == <<rag_pc, rag_impl, rag_env, top_k, results, rag_i, context_str,
              rag_return>>

\* No call of the retrieval client is being looked at.
RagUnused ==
    /\ rag_pc = "unused"
    /\ rag_impl = None
    /\ rag_env = None
    /\ top_k = 0
    /\ results = <<>>
    /\ rag_i = 0
    /\ context_str = <<>>
    /\ rag_return = <<>>

\* One call of _build_llm_payload_messages.
VARIABLES
    build_pc,               \* position inside the call
    user_prompt,
    context_data,
    build_history,          \* the history argument
    system_prompt_override,
    messages_for_api,
    context_sections_for_llm,
    tool_context_specific_parts,
    build_raised            \* the exception that left the call, or None

build_vars == <<build_pc, user_prompt, context_data, build_history,
                system_prompt_override, messages_for_api,
                context_sections_for_llm, tool_context_specific_parts,
                build_raised>>

\* No call of the prompt builder is being looked at.
BuildUnused ==
    /\ build_pc = "unused"
    /\ user_prompt = <<>>
    /\ context_data = <<>>
    /\ build_history = <<>>
    /\ system_prompt_override = None
    /\ messages_for_api = <<>>
    /\ context_sections_for_llm = <<>>
    /\ tool_context_specific_parts = <<>>
    /\ build_raised = None

\* One request to the /api/llm/chat endpoint of app.py.
VARIABLES
    app_pc,                 \* position inside the handler and its stream
    app_api_key,            \* DEEPSEEK_API_KEY is set
    app_events,             \* the events written to the response stream
    app_lines_read          \* upstream lines read so far

app_vars == <<app_pc, app_api_key, app_events, app_lines_read>>

\* No request to the endpoint is being looked at.
AppUnused ==
    /\ app_pc = "unused"
    /\ app_api_key = FALSE
    /\ app_events = <<>>
    /\ app_lines_read = 0

\* The executions of execute_interactive_code that the interactive_python
\* route of router/device.py has handed to threads of the default pool,
\* and the process-wide state they share.
VARIABLES
    px_pc,                      \* position of each execution
    code_string,                \* the code each execution was given
    file_contents_for_trace,    \* _file_contents_for_trace["<string>"]
    sys_stdout,                 \* the stream bound to sys.stdout
    sys_stderr,                 \* the stream bound to sys.stderr
    original_stdout,            \* local of redirect_stdstreams_to_buffer
    original_stderr,            \* local of redirect_stdstreams_to_buffer
    output_buffer,              \* the io.StringIO of each execution
    px_lineno,                  \* 0-based line the execution is at
    px_exception,               \* what left the with block of line 195
    px_returned                 \* the string each execution returned

px_vars == <<px_pc, code_string, file_contents_for_trace, sys_stdout, sys_stderr,
             original_stdout, original_stderr, output_buffer, px_lineno,
             px_exception, px_returned>>

\* No execution of interactive code is being looked at.
PxUnused ==
    /\ px_pc = <<>>
    /\ code_string = <<>>
    /\ file_contents_for_trace = None
    /\ sys_stdout = None
    /\ sys_stderr = None
    /\ original_stdout = <<>>
    /\ original_stderr = <<>>
    /\ output_buffer = <<>>
    /\ px_lineno = <<>>
    /\ px_exception = <<>>
    /\ px_returned = <<>>

vars == <<run_vars, rag_vars, build_vars, app_vars, px_vars>>

\* ------------------------------------------------------------------------
\* Events and messages
\* ------------------------------------------------------------------------

\* yield "data: <json string>"
ContentEvent(text) == [ev |-> "content", text |-> text]

\* yield "event: error"; kind is the family of the message text:
\*   "config"     Error: DeepSeek API key is not configured on the server.
\*   "api"        LLM API Error (<status>)
\*   "network"    Network error: <e>
\*   "unexpected" Unexpected error: <e>
\*   "loop"       Processing loop exceeded max iterations.
ErrorEvent(kind) == [ev |-> "error", kind |-> kind]

\* Line 447: the error event of a non-200 answer.  Its text is
\* "LLM API Error (<status>)"; the body read at line 441 goes to the log
\* (line 443) and not into the event.
ApiErrorEvent(status, body) ==
    [ev |-> "error", kind |-> "api", status |-> status, body |-> None]

\* yield "event: end-of-stream"
EosEvent(why) == [ev |-> "eos", why |-> why]

\* client.stream("POST", ...) with the payload of lines 399-416.
CallEntry(it, choice, msgs) ==
    [ev |-> "call", iteration |-> it, tool_choice |-> choice, messages |-> msgs]

\* The response of the current call is over; how says in which way.
RespEntry(how, finished, tcs) ==
    [ev |-> "resp", how |-> how, finish_seen |-> finished, tool_calls |-> tcs]

\* The response of the current call had a status other than 200.
Non200Entry(status, body) ==
    [ev |-> "resp", how |-> "non_200", finish_seen |-> FALSE, tool_calls |-> <<>>,
     status |-> status, body |-> body]

\* One line of the response has been read by the loop of line 451; chunk
\* is the decoded payload of a well-formed data line (NoChunk otherwise).
NoChunk == [kind |-> "none"]

LineEntry(kind, chunk) == [ev |-> "line", kind |-> kind, chunk |-> chunk]

\* One requested call is taken up by the for loop of the tool round.
ExecEntry(it, tc) ==
    [ev |-> "exec", iteration |-> it, id |-> tc.id, name |-> tc.name,
     arguments |-> tc.arguments]

\* logger.error("Error processing chunk ...") of line 551: nothing is
\* yielded.
ChunkErrorLogged == [ev |-> "chunk_error_logged"]

\* _fetch_rag_code_snippets(query) is awaited; result is the family of
\* the text it returns ("raised" if it raises).
RagEntry(it, id, q, result) ==
    [ev |-> "rag", iteration |-> it, id |-> id, query |-> q, result |-> result]

SystemMessage == [role |-> "system", content |-> [kind |-> "system_prompt"]]

UserMessage == [role |-> "user", content |-> [kind |-> "user_request"]]

\* _build_llm_payload_messages for an empty context: the system message,
\* the history in order, the user message.
BuildMessages(hist) == <<SystemMessage>> \o hist \o <<UserMessage>>

\* "content": full_response_content or None
AssistantContent(text) ==
    IF text = <<>> THEN [kind |-> "null"] ELSE [kind |-> "text", text |-> text]

AssistantMessage(text, tcs) ==
    [role |-> "assistant", content |-> AssistantContent(text), tool_calls |-> tcs]

ToolMessage(id, name, content) ==
    [role |-> "tool", tool_call_id |-> id, name |-> name, content |-> content]

\* "Error: Invalid arguments for <name>: <e>"
InvalidArgsContent(name, cause) ==
    [kind |-> "invalid_args", name |-> name, cause |-> cause]

\* "Error: Unknown tool '<name>'."
UnknownToolContent(name) == [kind |-> "unknown_tool", name |-> name]

\* What _fetch_rag_code_snippets returns: the formatted block, the
\* no-snippets sentence, or a text starting with "Error:"; it raises in
\* no case (lines 59-61, 121-125).
RagResults == {"snippets", "no_snippets", "error"}

RagContent(result, q) == [kind |-> result, query |-> q]

\* The histories a request may carry.
Histories ==
    { <<>>, <<[role |-> "user", content |-> [kind |-> "history"]]>> }

\* ------------------------------------------------------------------------
\* Accumulation of tool-call deltas (lines 471-519)
\* ------------------------------------------------------------------------

\* Set-once merge of one field: the first non-empty value wins.
SetOnce(current, new) == IF current = None /\ new # None THEN new ELSE current

\* Lines 481-516 for one tc_delta.  ok = FALSE is the IndexError of
\* tool_calls_to_process[idx] when idx is beyond the entry just appended.
MergeDelta(table, d) ==
    LET grown == IF d.index >= Len(table)
                 THEN Append(table, EmptyToolCall) ELSE table
    IN  IF d.index + 1 > Len(grown)
        THEN [table |-> grown, ok |-> FALSE]
        ELSE LET cur == grown[d.index + 1]
                 merged == [id |-> SetOnce(cur.id, d.id),
                            type |-> SetOnce(cur.type, d.type),
                            name |-> SetOnce(cur.name, d.name),
                            arguments |-> cur.arguments \o d.arguments]
             IN  [table |-> [grown EXCEPT ![d.index + 1] = merged], ok |-> TRUE]

\* The for loop of line 476 over delta["tool_calls"].
RECURSIVE MergeDeltas(_, _)
MergeDeltas(table, ds) ==
    IF ds = <<>> THEN [table |-> table, ok |-> TRUE]
    ELSE LET r == MergeDelta(table, Head(ds))
         IN  IF r.ok THEN MergeDeltas(r.table, Tail(ds)) ELSE r

\* Lines 531-538: the table after a finish_reason.
AfterFinishReason(table, c) ==
    IF c.finish_reason = "tool_calls" /\ table = <<>> /\ c.message_tool_calls # <<>>
    THEN c.message_tool_calls
    ELSE table

\* Lines 543-548: the chunk ends the run.
StopsRun(table, c) == c.finish_reason = "stop" /\ table = <<>>

\* Line 459: [DONE] ends the run.
DoneEndsRun(table) == table = <<>>

\* The setting left as it was before the round.
ToolChoiceAfterRound_Auto == "auto"

\* Lines 637-639.
ToolChoiceAfterRound == "none"

\* The loop of line 395 as  while True.
LoopGuard_Unbounded(count) == TRUE

\* Line 395.
LoopGuard(count) == count < max_iterations

\* ------------------------------------------------------------------------
\* Texts.  A Python string is a sequence of runs [c, n]: n >= 1 copies of
\* the character c, adjacent runs having different characters.  A literal
\* of the source is one run of its own character, of the literal's length,
\* with its line breaks as runs of "\n".
\* ------------------------------------------------------------------------

Run(c, n) == IF n <= 0 THEN <<>> ELSE <<[c |-> c, n |-> n]>>

Last(s) == s[Len(s)]

\* len(t)
RECURSIVE TLen(_)
TLen(t) == IF t = <<>> THEN 0 ELSE Head(t).n + TLen(Tail(t))

\* a + b
TCat(a, b) ==
    IF a = <<>> THEN b
    ELSE IF b = <<>> THEN a
    ELSE IF Last(a).c = Head(b).c
         THEN SubSeq(a, 1, Len(a) - 1)
              \o <<[c |-> Head(b).c, n |-> Last(a).n + Head(b).n]>> \o Tail(b)
         ELSE a \o b

\* The first k characters of t (all of t when k >= len(t)).
RECURSIVE TTake(_, _)
TTake(t, k) ==
    IF k <= 0 \/ t = <<>> THEN <<>>
    ELSE IF Head(t).n >= k THEN <<[c |-> Head(t).c, n |-> k]>>
    ELSE <<Head(t)>> \o TTake(Tail(t), k - Head(t).n)

\* t without its first k characters.
RECURSIVE TDrop(_, _)
TDrop(t, k) ==
    IF k <= 0 \/ t = <<>> THEN t
    ELSE IF Head(t).n > k THEN <<[c |-> Head(t).c, n |-> Head(t).n - k]>> \o Tail(t)
    ELSE TDrop(Tail(t), k - Head(t).n)

\* t[:k] of Python: a negative k counts from the end.
PySliceTo(t, k) == IF k >= 0 THEN TTake(t, k) ELSE TTake(t, TLen(t) + k)

IsSpace(c) == c \in {" ", "\n"}

\* t.strip()
RECURSIVE LStrip(_)
LStrip(t) == IF t # <<>> /\ IsSpace(Head(t).c) THEN LStrip(Tail(t)) ELSE t

RECURSIVE RStrip(_)
RStrip(t) ==
    IF t # <<>> /\ IsSpace(Last(t).c) THEN RStrip(SubSeq(t, 1, Len(t) - 1)) ELSE t

Strip(t) == RStrip(LStrip(t))

\* t.startswith(s), t.endswith(s)
StartsWith(t, s) == TLen(t) >= TLen(s) /\ TTake(t, TLen(s)) = s

EndsWith(t, s) == TLen(t) >= TLen(s) /\ TDrop(t, TLen(t) - TLen(s)) = s

\* ------------------------------------------------------------------------
\* The retrieval client
\* ------------------------------------------------------------------------

MAX_RAG_SNIPPET_LEN_FOR_LLM == 7000

\* The two implementations of the repository.
RagImpls == {"llm_service", "tools_rag"}

\* "... (snippet truncated)" (llm_service.py), "... (truncated)" (rag.py)
SnippetMarker(impl) ==
    IF impl = "llm_service" THEN Run("snippet_marker", 23) ELSE Run("snippet_marker", 15)

\* "\n... (overall RAG context truncated)"
OverallMarker == TCat(Run("\n", 1), Run("overall_marker", 35))

\* "Relevant uiautomator2 Code Snippets Found:\n\n"
RagHeader == TCat(Run("header", 42), Run("\n", 2))

\* Number of decimal digits of a positive number.
RECURSIVE Digits(_)
Digits(n) == IF n < 10 THEN 1 ELSE 1 + Digits(n \div 10)

\* f"Snippet {i+1} (from {filename}, score: {score:.2f}):\n" for the
\* default filename "N/A" and a score below 10, then "```python\n".
SnippetHead(i) ==
    TCat(TCat(Run("snippet_head", 33 + Digits(i)), Run("\n", 1)),
         TCat(Run("fence_open", 9), Run("\n", 1)))

\* "\n```\n\n"
SnippetTail == TCat(TCat(Run("\n", 1), Run("fence_close", 3)), Run("\n", 2))

\* The per-snippet truncation (lines 97-103 of llm_service.py, 43-51 of
\* rag.py).
MaxIndividualSnippetLen(k) == MAX_RAG_SNIPPET_LEN_FOR_LLM \div k

TruncateSnippet(impl, text, k) ==
    IF TLen(text) > MaxIndividualSnippetLen(k)
    THEN TCat(PySliceTo(text, MaxIndividualSnippetLen(k) - 50), SnippetMarker(impl))
    ELSE text

\* The text put between the fences: rag.py strips it, llm_service.py
\* does not.
InsertedText(impl, text, k) ==
    IF impl = "tools_rag" THEN Strip(TruncateSnippet(impl, text, k))
    ELSE TruncateSnippet(impl, text, k)

\* TruncateOverall that cuts at the limit itself, leaving no room for the
\* marker.
TruncateOverall_CutAtLimit(s) ==
    IF TLen(s) > MAX_RAG_SNIPPET_LEN_FOR_LLM
    THEN TCat(TTake(s, MAX_RAG_SNIPPET_LEN_FOR_LLM), OverallMarker)
    ELSE s

\* The overall truncation (lines 114-119 of llm_service.py, 57-61 of
\* rag.py).
TruncateOverall(s) ==
    IF TLen(s) > MAX_RAG_SNIPPET_LEN_FOR_LLM
    THEN TCat(TTake(s, MAX_RAG_SNIPPET_LEN_FOR_LLM - 100), OverallMarker)
    ELSE s

\* The texts the client returns without a block.
RagUrlError == TCat(Run("Error:", 6), Run("url_not_configured", 54))

RagExceptionError == TCat(Run("Error:", 6), Run("exception_text", 20))

NoSnippetsText == Run("no_snippets", 88)

\* The text starts with "Error:".
StartsWithError(t) == StartsWith(t, Run("Error:", 6))

\* What the retrieval endpoint does in one call:
\*   "url_not_configured"  COCOINDEX_SEARCH_API_URL is empty
\*   "transport_error"     client.get raises httpx.RequestError
\*   "bad_status"          raise_for_status raises httpx.HTTPStatusError
\*   "bad_body"            response.json() raises ValueError
\*   "no_results"          the body has no or an empty "results"
\*   "results"             the body has a non-empty list of snippets
\*   "malformed_result"    a snippet whose "text" is not a string: len(text)
\*                         raises TypeError
RagEnvironments ==
    {"url_not_configured", "transport_error", "bad_status", "bad_body",
     "no_results", "results", "malformed_result"}

\* The exceptions the try block of the client can see.
RagExceptions == {"transport_error", "bad_status", "bad_body", "malformed_result"}

\* A handler for transport errors only:  except httpx.RequestError.
RagCatches_TransportOnly(exception) == exception = "transport_error"

\* except Exception (line 121 of llm_service.py, 65 of rag.py).
RagCatches(exception) == exception \in RagExceptions

\* What one call of the client gives its caller in the environment env:
\* the returned text, or an exception.  For a non-empty result set the
\* text is a block, which starts with the header.
FetchOutcome(env) ==
    IF env = "url_not_configured" THEN [raised |-> FALSE, text |-> RagUrlError]
    ELSE IF env \in RagExceptions
         THEN IF RagCatches(env) THEN [raised |-> FALSE, text |-> RagExceptionError]
              ELSE [raised |-> TRUE, text |-> <<>>]
    ELSE IF env = "no_results" THEN [raised |-> FALSE, text |-> NoSnippetsText]
    ELSE [raised |-> FALSE, text |-> RagHeader]

\* The family of a returned text.
ResultKind(text) ==
    IF StartsWithError(text) THEN "error"
    ELSE IF text = NoSnippetsText THEN "no_snippets"
    ELSE "snippets"

\* ------------------------------------------------------------------------
\* Initial state
\* ------------------------------------------------------------------------

Init ==
    /\ pc = "entry"
    /\ api_key \in BOOLEAN
    /\ history \in Histories
    /\ query = None
    /\ messages = <<>>
    /\ tool_choice_setting = "auto"
    /\ iteration_count = 0
    /\ full_response_content = <<>>
    /\ tool_calls_to_process = <<>>
    /\ tool_index = 0
    /\ finish_seen = FALSE
    /\ client_open = FALSE
    /\ response_open = FALSE
    /\ lines_read = 0
    /\ trace = <<>>
    /\ RagUnused
    /\ BuildUnused
    /\ AppUnused
    /\ PxUnused

\* ------------------------------------------------------------------------
\* Actions
\* ------------------------------------------------------------------------

\* Finish without its return: the events are yielded and the generator
\* goes on from where it was.
Finish_NoReturn(events) ==
    /\ trace' = trace \o events
    /\ UNCHANGED <<pc, client_open, response_open>>

\* return after the last yield of a path: the client (if any) is left.
Finish(events) ==
    /\ trace' = trace \o events
    /\ pc' = "done"
    /\ client_open' = FALSE
    /\ response_open' = FALSE

\* Lines 365-369.
MissingApiKey ==
    /\ pc = "entry"
    /\ ~api_key
    /\ Finish(<<ErrorEvent("config"), EosEvent("config")>>)
    /\ UNCHANGED <<api_key, history, query, messages, tool_choice_setting, iteration_count,
                   full_response_content, tool_calls_to_process, tool_index,
                   finish_seen, lines_read>>

\* Start without the test of line 365.
Start_NoKeyCheck ==
    /\ pc = "entry"
    /\ messages' = BuildMessages(history)
    /\ tool_choice_setting' = "auto"
    /\ iteration_count' = 0
    /\ client_open' = TRUE
    /\ pc' = "loop"
    /\ UNCHANGED <<api_key, history, query, full_response_content, tool_calls_to_process,
                   tool_index, finish_seen, response_open, lines_read, trace>>

\* Lines 373-393.
Start ==
    /\ pc = "entry"
    /\ api_key
    /\ messages' = BuildMessages(history)
    /\ tool_choice_setting' = "auto"
    /\ iteration_count' = 0
    /\ client_open' = TRUE
    /\ pc' = "loop"
    /\ UNCHANGED <<api_key, history, query, full_response_content, tool_calls_to_process,
                   tool_index, finish_seen, response_open, lines_read, trace>>

\* Lines 395-438: one more iteration, the request is sent and answered 200.
\* UpstreamCall without the two assignments of lines 430-433: the content
\* and the table of the earlier iteration are carried into the new call.
UpstreamCall_NoReset ==
    /\ pc = "loop"
    /\ LoopGuard(iteration_count)
    /\ iteration_count' = iteration_count + 1
    /\ finish_seen' = FALSE
    /\ trace' = Append(trace, CallEntry(iteration_count + 1, tool_choice_setting, messages))
    /\ response_open' = TRUE
    /\ pc' = "stream"
    /\ UNCHANGED <<api_key, history, query, messages, tool_choice_setting, tool_index,
                   full_response_content, tool_calls_to_process, client_open, lines_read>>

UpstreamCall ==
    /\ pc = "loop"
    /\ LoopGuard(iteration_count)
    /\ iteration_count' = iteration_count + 1
    /\ full_response_content' = <<>>
    /\ tool_calls_to_process' = <<>>
    /\ finish_seen' = FALSE
    /\ trace' = Append(trace, CallEntry(iteration_count + 1, tool_choice_setting, messages))
    /\ response_open' = TRUE
    /\ pc' = "stream"
    /\ UNCHANGED <<api_key, history, query, messages, tool_choice_setting, tool_index,
                   client_open, lines_read>>

\* UpstreamCallNon200 that returns without leaving the two async with
\* blocks of lines 391 and 436.
UpstreamCallNon200_LeftOpen(status, body) ==
    /\ pc = "loop"
    /\ status \in ErrorStatuses
    /\ body \in ErrorBodies
    /\ LoopGuard(iteration_count)
    /\ iteration_count' = iteration_count + 1
    /\ full_response_content' = <<>>
    /\ tool_calls_to_process' = <<>>
    /\ finish_seen' = FALSE
    /\ trace' = trace \o <<CallEntry(iteration_count + 1, tool_choice_setting, messages),
                            Non200Entry(status, body),
                            ApiErrorEvent(status, body), EosEvent("api")>>
    /\ pc' = "done"
    /\ response_open' = TRUE
    /\ UNCHANGED <<api_key, history, query, messages, tool_choice_setting, tool_index,
                   client_open, lines_read>>

\* Lines 395-449: the provider answers with a status other than 200.
UpstreamCallNon200(status, body) ==
    /\ pc = "loop"
    /\ status \in ErrorStatuses
    /\ body \in ErrorBodies
    /\ LoopGuard(iteration_count)
    /\ iteration_count' = iteration_count + 1
    /\ full_response_content' = <<>>
    /\ tool_calls_to_process' = <<>>
    /\ finish_seen' = FALSE
    /\ Finish(<<CallEntry(iteration_count + 1, tool_choice_setting, messages),
                Non200Entry(status, body),
                ApiErrorEvent(status, body), EosEvent("api")>>)
    /\ UNCHANGED <<api_key, history, query, messages, tool_choice_setting, tool_index,
                   lines_read>>

\* Lines 436, 555-559: httpx.RequestError while connecting.
ConnectError ==
    /\ pc = "loop"
    /\ LoopGuard(iteration_count)
    /\ iteration_count' = iteration_count + 1
    /\ full_response_content' = <<>>
    /\ tool_calls_to_process' = <<>>
    /\ finish_seen' = FALSE
    /\ Finish(<<CallEntry(iteration_count + 1, tool_choice_setting, messages),
                RespEntry("network_error", FALSE, <<>>),
                ErrorEvent("network"), EosEvent("network")>>)
    /\ UNCHANGED <<api_key, history, query, messages, tool_choice_setting, tool_index,
                   lines_read>>

\* StreamNetworkError with a retry: the failed call is given up without an
\* event and the loop issues the request again.
StreamNetworkError_Retry ==
    /\ pc = "stream"
    /\ trace' = Append(trace, RespEntry("network_error", finish_seen,
                                        tool_calls_to_process))
    /\ response_open' = FALSE
    /\ pc' = "loop"
    /\ UNCHANGED <<api_key, history, query, messages, tool_choice_setting, iteration_count,
                   full_response_content, tool_calls_to_process, tool_index,
                   finish_seen, client_open, lines_read>>

\* StreamNetworkError that reports the error and then goes on to the
\* test of line 566 with the tool calls accumulated before the failure.
StreamNetworkError_RunsTools ==
    /\ pc = "stream"
    /\ trace' = trace \o <<RespEntry("network_error", finish_seen, tool_calls_to_process),
                            ErrorEvent("network")>>
    /\ response_open' = FALSE
    /\ pc' = "after"
    /\ UNCHANGED <<api_key, history, query, messages, tool_choice_setting, iteration_count,
                   full_response_content, tool_calls_to_process, tool_index,
                   finish_seen, client_open, lines_read>>

\* Lines 451, 555-559: httpx.RequestError while reading the stream.
StreamNetworkError ==
    /\ pc = "stream"
    /\ Finish(<<RespEntry("network_error", finish_seen, tool_calls_to_process),
                ErrorEvent("network"), EosEvent("network")>>)
    /\ UNCHANGED <<api_key, history, query, messages, tool_choice_setting, iteration_count,
                   full_response_content, tool_calls_to_process, tool_index,
                   finish_seen, lines_read>>

\* Lines 452-453 and the line that matches neither test of 454 and 464.
ReadIgnoredLine(l) ==
    /\ pc = "stream"
    /\ lines_read < MaxLines
    /\ l \in IgnoredLines
    /\ lines_read' = lines_read + 1
    /\ UNCHANGED <<pc, api_key, history, query, messages, tool_choice_setting,
                   iteration_count, full_response_content, tool_calls_to_process,
                   tool_index, finish_seen, client_open, response_open, trace>>

\* Lines 464-468, 550-553: the chunk is logged and skipped.
ReadSkippedLine(l) ==
    /\ pc = "stream"
    /\ lines_read < MaxLines
    /\ l \in SkippedLines
    /\ lines_read' = lines_read + 1
    /\ trace' = trace \o <<LineEntry(l, NoChunk), ChunkErrorLogged>>
    /\ UNCHANGED <<pc, api_key, history, query, messages, tool_choice_setting,
                   iteration_count, full_response_content, tool_calls_to_process,
                   tool_index, finish_seen, client_open, response_open>>

\* ReadFatalLine with the handler inside the stream loop: the error event
\* is yielded and the next line is read.
ReadFatalLine_Continue(l) ==
    /\ pc = "stream"
    /\ lines_read < MaxLines
    /\ l \in FatalLines
    /\ lines_read' = lines_read + 1
    /\ trace' = trace \o <<LineEntry(l, NoChunk), ErrorEvent("unexpected")>>
    /\ UNCHANGED <<pc, api_key, history, query, messages, tool_choice_setting,
                   iteration_count, full_response_content, tool_calls_to_process,
                   tool_index, finish_seen, client_open, response_open>>

\* Lines 464-469, 560-564: the exception leaves the stream loop.
ReadFatalLine(l) ==
    /\ pc = "stream"
    /\ lines_read < MaxLines
    /\ l \in FatalLines
    /\ lines_read' = lines_read + 1
    /\ Finish(<<LineEntry(l, NoChunk),
                RespEntry("unexpected_error", finish_seen, tool_calls_to_process),
                ErrorEvent("unexpected"), EosEvent("unexpected")>>)
    /\ UNCHANGED <<api_key, history, query, messages, tool_choice_setting, iteration_count,
                   full_response_content, tool_calls_to_process, tool_index,
                   finish_seen>>

\* ReadDone without the return of line 461: end-of-stream is yielded and
\* the loop is left by the break of line 462.
ReadDone_NoReturn ==
    /\ pc = "stream"
    /\ lines_read < MaxLines
    /\ lines_read' = lines_read + 1
    /\ trace' = trace \o <<LineEntry("done", NoChunk),
                            RespEntry("done", finish_seen, tool_calls_to_process)>>
                       \o (IF DoneEndsRun(tool_calls_to_process)
                           THEN <<EosEvent("done")>> ELSE <<>>)
    /\ response_open' = FALSE
    /\ pc' = "after"
    /\ UNCHANGED <<api_key, history, query, messages, tool_choice_setting, iteration_count,
                   full_response_content, tool_calls_to_process, tool_index,
                   finish_seen, client_open>>

\* ReadDone whose break leaves the response stream of the call open, as
\* if the tool round ran inside the block of line 436.
ReadDone_ResponseLeftOpen ==
    /\ pc = "stream"
    /\ lines_read < MaxLines
    /\ lines_read' = lines_read + 1
    /\ IF DoneEndsRun(tool_calls_to_process)
       THEN Finish(<<LineEntry("done", NoChunk),
                     RespEntry("done", finish_seen, tool_calls_to_process),
                     EosEvent("done")>>)
       ELSE /\ trace' = trace \o <<LineEntry("done", NoChunk),
                                    RespEntry("done", finish_seen, tool_calls_to_process)>>
            /\ pc' = "after"
            /\ UNCHANGED <<client_open, response_open>>
    /\ UNCHANGED <<api_key, history, query, messages, tool_choice_setting, iteration_count,
                   full_response_content, tool_calls_to_process, tool_index,
                   finish_seen>>

\* Lines 454-462.
ReadDone ==
    /\ pc = "stream"
    /\ lines_read < MaxLines
    /\ lines_read' = lines_read + 1
    /\ IF DoneEndsRun(tool_calls_to_process)
       THEN Finish(<<LineEntry("done", NoChunk),
                     RespEntry("done", finish_seen, tool_calls_to_process),
                     EosEvent("done")>>)
       ELSE /\ trace' = trace \o <<LineEntry("done", NoChunk),
                                    RespEntry("done", finish_seen, tool_calls_to_process)>>
            /\ response_open' = FALSE
            /\ pc' = "after"
            /\ UNCHANGED client_open
    /\ UNCHANGED <<api_key, history, query, messages, tool_choice_setting, iteration_count,
                   full_response_content, tool_calls_to_process, tool_index,
                   finish_seen>>

\* Lines 464-553 for a payload of the expected shape.
ReadChunk(c) ==
    /\ pc = "stream"
    /\ lines_read < MaxLines
    /\ c \in Chunks
    /\ lines_read' = lines_read + 1
    /\ LET merge == MergeDeltas(tool_calls_to_process, c.tool_calls)
       IN  IF ~merge.ok
           THEN \* IndexError: the rest of the chunk is skipped
                /\ tool_calls_to_process' = merge.table
                /\ trace' = trace \o <<LineEntry("chunk", c), ChunkErrorLogged>>
                /\ UNCHANGED <<pc, full_response_content, finish_seen, client_open,
                               response_open>>
           ELSE LET table == IF c.finish_reason = None THEN merge.table
                             ELSE AfterFinishReason(merge.table, c)
                    emitted == IF c.has_content THEN <<ContentEvent(c.content)>>
                               ELSE <<>>
                    finished == finish_seen \/ c.finish_reason # None
                IN  /\ tool_calls_to_process' = table
                    /\ full_response_content' =
                          IF c.has_content THEN full_response_content \o c.content
                          ELSE full_response_content
                    /\ finish_seen' = finished
                    /\ IF c.finish_reason # None /\ StopsRun(table, c)
                       THEN Finish(<<LineEntry("chunk", c)>> \o emitted
                                   \o <<RespEntry("stop", finished, table),
                                        EosEvent("stop")>>)
                       ELSE /\ trace' = trace \o <<LineEntry("chunk", c)>> \o emitted
                            /\ UNCHANGED <<pc, client_open, response_open>>
    /\ UNCHANGED <<api_key, history, query, messages, tool_choice_setting, iteration_count,
                   tool_index>>

\* Line 451: the response ends without [DONE].
StreamClosed ==
    /\ pc = "stream"
    /\ trace' = Append(trace, RespEntry("closed", finish_seen, tool_calls_to_process))
    /\ response_open' = FALSE
    /\ pc' = "after"
    /\ UNCHANGED <<api_key, history, query, messages, tool_choice_setting, iteration_count,
                   full_response_content, tool_calls_to_process, tool_index,
                   finish_seen, client_open, lines_read>>

\* BeginToolRound without the append of line 577.
BeginToolRound_NoAssistantTurn ==
    /\ pc = "after"
    /\ tool_calls_to_process # <<>>
    /\ tool_index' = 1
    /\ pc' = "tools"
    /\ UNCHANGED <<api_key, history, query, messages, tool_choice_setting, iteration_count,
                   full_response_content, tool_calls_to_process, finish_seen,
                   client_open, response_open, lines_read, trace>>

\* Lines 566-581: the assistant turn of a tool round.
BeginToolRound ==
    /\ pc = "after"
    /\ tool_calls_to_process # <<>>
    /\ messages' = Append(messages,
                          AssistantMessage(full_response_content, tool_calls_to_process))
    /\ tool_index' = 1
    /\ pc' = "tools"
    /\ UNCHANGED <<api_key, history, query, tool_choice_setting, iteration_count,
                   full_response_content, tool_calls_to_process, finish_seen,
                   client_open, response_open, lines_read, trace>>

\* Lines 640-656.
EndWithoutToolCalls ==
    /\ pc = "after"
    /\ tool_calls_to_process = <<>>
    /\ Finish(<<EosEvent("after_processing")>>)
    /\ UNCHANGED <<api_key, history, query, messages, tool_choice_setting, iteration_count,
                   full_response_content, tool_calls_to_process, tool_index,
                   finish_seen, lines_read>>

\* Line 583 (next element of the for loop) and lines 637-639 after the last.
NextToolCall ==
    IF tool_index = Len(tool_calls_to_process)
    THEN /\ tool_choice_setting' = ToolChoiceAfterRound
         /\ tool_index' = 0
         /\ pc' = "loop"
    ELSE /\ tool_index' = tool_index + 1
         /\ UNCHANGED <<tool_choice_setting, pc>>

CurrentToolCall == tool_calls_to_process[tool_index]

\* Lines 583-624, else branch of the try: the retrieval client is called.
ExecRagTool(env) ==
    /\ pc = "tools"
    /\ CurrentToolCall.name = RAG_TOOL_NAME
    /\ ParseArgs(CurrentToolCall.arguments) = "query"
    /\ env \in RagEnvironments
    /\ LET tc == CurrentToolCall
           outcome == FetchOutcome(env)
       IN  /\ query' = QueryOf(tc.arguments)
           /\ trace' = trace \o <<ExecEntry(iteration_count, tc),
                                  RagEntry(iteration_count, tc.id, query',
                                           IF outcome.raised THEN "raised"
                                           ELSE ResultKind(outcome.text))>>
           /\ IF outcome.raised
              THEN \* the exception leaves the generator
                   /\ pc' = "raised"
                   /\ client_open' = FALSE
                   /\ UNCHANGED <<messages, tool_choice_setting, tool_index>>
              ELSE /\ ResultKind(outcome.text) \in RagResults
                   /\ messages' = Append(messages,
                                         ToolMessage(tc.id, tc.name,
                                                     RagContent(ResultKind(outcome.text),
                                                                query')))
                   /\ NextToolCall
                   /\ UNCHANGED client_open
    /\ UNCHANGED <<api_key, history, iteration_count, full_response_content,
                   tool_calls_to_process, finish_seen, response_open, lines_read>>

\* The value of the local  query  after the try body of lines 584-599
\* failed: json.loads raises before the assignment of line 590 (the local
\* keeps what an earlier call left in it); an object without a usable
\* query assigns the falsy value and then raises ValueError.
QueryAfterBadArgs(args, old) ==
    IF ParseArgs(args) = "bad_json" THEN old ELSE None

\* ExecRagToolBadArgs that, when the local  query  still holds the query
\* of an earlier call, calls the retrieval client with it.
ExecRagToolBadArgs_StaleQuery ==
    /\ pc = "tools"
    /\ CurrentToolCall.name = RAG_TOOL_NAME
    /\ ParseArgs(CurrentToolCall.arguments) \in {"bad_json", "no_query"}
    /\ query' = QueryAfterBadArgs(CurrentToolCall.arguments, query)
    /\ LET tc == CurrentToolCall
       IN  IF query' = None
           THEN /\ trace' = Append(trace, ExecEntry(iteration_count, tc))
                /\ messages' = Append(messages,
                                      ToolMessage(tc.id, tc.name,
                                                  InvalidArgsContent(tc.name,
                                                                     ParseArgs(tc.arguments))))
           ELSE /\ trace' = trace \o <<ExecEntry(iteration_count, tc),
                                       RagEntry(iteration_count, tc.id, query', "snippets")>>
                /\ messages' = Append(messages,
                                      ToolMessage(tc.id, tc.name,
                                                  RagContent("snippets", query')))
    /\ NextToolCall
    /\ UNCHANGED <<api_key, history, iteration_count, full_response_content,
                   tool_calls_to_process, finish_seen, client_open, response_open,
                   lines_read>>

\* Lines 583-605, 614-624: json.JSONDecodeError or ValueError is caught.
ExecRagToolBadArgs ==
    /\ pc = "tools"
    /\ CurrentToolCall.name = RAG_TOOL_NAME
    /\ ParseArgs(CurrentToolCall.arguments) \in {"bad_json", "no_query"}
    /\ query' = QueryAfterBadArgs(CurrentToolCall.arguments, query)
    /\ LET tc == CurrentToolCall
       IN  /\ trace' = Append(trace, ExecEntry(iteration_count, tc))
           /\ messages' = Append(messages,
                                 ToolMessage(tc.id, tc.name,
                                             InvalidArgsContent(tc.name, ParseArgs(tc.arguments))))
    /\ NextToolCall
    /\ UNCHANGED <<api_key, history, iteration_count, full_response_content,
                   tool_calls_to_process, finish_seen, client_open, response_open,
                   lines_read>>

\* Lines 589-599: arguments.get on a value that is not a mapping raises
\* AttributeError, which no handler catches: the exception leaves the
\* generator (and the async with of line 391).
ExecRagToolRaises ==
    /\ pc = "tools"
    /\ CurrentToolCall.name = RAG_TOOL_NAME
    /\ ParseArgs(CurrentToolCall.arguments) = "not_object"
    /\ trace' = Append(trace, ExecEntry(iteration_count, CurrentToolCall))
    /\ pc' = "raised"
    /\ client_open' = FALSE
    /\ UNCHANGED <<api_key, history, query, messages, tool_choice_setting, iteration_count,
                   full_response_content, tool_calls_to_process, tool_index,
                   finish_seen, response_open, lines_read>>

\* ExecUnknownTool that writes its tool turn over the last message
\* instead of appending it.
ExecUnknownTool_Overwrite ==
    /\ pc = "tools"
    /\ CurrentToolCall.name # RAG_TOOL_NAME
    /\ LET tc == CurrentToolCall
       IN  /\ trace' = Append(trace, ExecEntry(iteration_count, tc))
           /\ messages' = [messages EXCEPT ![Len(messages)] =
                              ToolMessage(tc.id, tc.name, UnknownToolContent(tc.name))]
    /\ NextToolCall
    /\ UNCHANGED <<api_key, history, query, iteration_count, full_response_content,
                   tool_calls_to_process, finish_seen, client_open, response_open,
                   lines_read>>

\* Lines 625-636.
ExecUnknownTool ==
    /\ pc = "tools"
    /\ CurrentToolCall.name # RAG_TOOL_NAME
    /\ LET tc == CurrentToolCall
       IN  /\ trace' = Append(trace, ExecEntry(iteration_count, tc))
           /\ messages' = Append(messages,
                                 ToolMessage(tc.id, tc.name, UnknownToolContent(tc.name)))
    /\ NextToolCall
    /\ UNCHANGED <<api_key, history, query, iteration_count, full_response_content,
                   tool_calls_to_process, finish_seen, client_open, response_open,
                   lines_read>>

\* Lines 395, 658-662.
LoopLimit ==
    /\ pc = "loop"
    /\ ~LoopGuard(iteration_count)
    /\ Finish(<<ErrorEvent("loop"), EosEvent("loop")>>)
    /\ UNCHANGED <<api_key, history, query, messages, tool_choice_setting, iteration_count,
                   full_response_content, tool_calls_to_process, tool_index,
                   finish_seen, lines_read>>

Next ==
    \/ MissingApiKey /\ UNCHANGED <<rag_vars, build_vars, app_vars, px_vars>>
    \/ Start /\ UNCHANGED <<rag_vars, build_vars, app_vars, px_vars>>
    \/ UpstreamCall /\ UNCHANGED <<rag_vars, build_vars, app_vars, px_vars>>
    \/ \E status \in ErrorStatuses, body \in ErrorBodies :
          UpstreamCallNon200(status, body) /\ UNCHANGED <<rag_vars, build_vars, app_vars, px_vars>>
    \/ ConnectError /\ UNCHANGED <<rag_vars, build_vars, app_vars, px_vars>>
    \/ StreamNetworkError /\ UNCHANGED <<rag_vars, build_vars, app_vars, px_vars>>
    \/ \E l \in IgnoredLines : ReadIgnoredLine(l) /\ UNCHANGED <<rag_vars, build_vars, app_vars, px_vars>>
    \/ \E l \in SkippedLines : ReadSkippedLine(l) /\ UNCHANGED <<rag_vars, build_vars, app_vars, px_vars>>
    \/ \E l \in FatalLines : ReadFatalLine(l) /\ UNCHANGED <<rag_vars, build_vars, app_vars, px_vars>>
    \/ ReadDone /\ UNCHANGED <<rag_vars, build_vars, app_vars, px_vars>>
    \/ \E c \in Chunks : ReadChunk(c) /\ UNCHANGED <<rag_vars, build_vars, app_vars, px_vars>>
    \/ StreamClosed /\ UNCHANGED <<rag_vars, build_vars, app_vars, px_vars>>
    \/ BeginToolRound /\ UNCHANGED <<rag_vars, build_vars, app_vars, px_vars>>
    \/ EndWithoutToolCalls /\ UNCHANGED <<rag_vars, build_vars, app_vars, px_vars>>
    \/ \E env \in RagEnvironments : ExecRagTool(env) /\ UNCHANGED <<rag_vars, build_vars, app_vars, px_vars>>
    \/ ExecRagToolBadArgs /\ UNCHANGED <<rag_vars, build_vars, app_vars, px_vars>>
    \/ ExecRagToolRaises /\ UNCHANGED <<rag_vars, build_vars, app_vars, px_vars>>
    \/ ExecUnknownTool /\ UNCHANGED <<rag_vars, build_vars, app_vars, px_vars>>
    \/ LoopLimit /\ UNCHANGED <<rag_vars, build_vars, app_vars, px_vars>>

Spec == Init /\ [][Next]_vars

\* ------------------------------------------------------------------------
\* Reading the trace
\* ------------------------------------------------------------------------

Entries(kind) == SelectSeq(trace, LAMBDA e : e.ev = kind)

Count(kind) == Len(Entries(kind))

\* The generator has stopped: it returned, or an exception left it.
Stopped == pc \in {"done", "raised"}

\* Position of the last entry of a kind before position j (0 if none).
LastBefore(kind, j) ==
    IF \E i \in 1..(j - 1) : trace[i].ev = kind
    THEN CHOOSE i \in 1..(j - 1) :
            /\ trace[i].ev = kind
            /\ \A k \in (i + 1)..(j - 1) : trace[k].ev # kind
    ELSE 0

\* Position of the first entry of a kind after position j (0 if none).
FirstAfter(kind, j) ==
    IF \E i \in (j + 1)..Len(trace) : trace[i].ev = kind
    THEN CHOOSE i \in (j + 1)..Len(trace) :
            /\ trace[i].ev = kind
            /\ \A k \in (j + 1)..(i - 1) : trace[k].ev # kind
    ELSE 0

\* The response recorded by entry r ended with tool calls to run: the
\* model requested tools in it.
RequestedTools(r) == r.how \in {"done", "closed"} /\ r.tool_calls # <<>>

\* The response recorded by entry r ended without error and without tool
\* calls: the model answered.
Answered(r) == r.how \in {"done", "stop", "closed"} /\ r.tool_calls = <<>>

\* Positions of the responses that started a tool round.
ToolRounds == {j \in 1..Len(trace) : trace[j].ev = "resp" /\ RequestedTools(trace[j])}

\* The tool round started by the response at position j is over: a later
\* upstream call exists, or the run is back at the loop head or stopped.
RoundOver(j) ==
    \/ FirstAfter("call", j) # 0
    \/ pc \in {"loop", "done", "raised"}

\* The message list the round of position j started from, and the list it
\* left (as sent by the next upstream call, or the current list).
MessagesBefore(j) == trace[LastBefore("call", j)].messages

MessagesAfter(j) ==
    IF FirstAfter("call", j) # 0 THEN trace[FirstAfter("call", j)].messages
    ELSE messages

\* ------------------------------------------------------------------------
\* C1 - every run ends by emitting an end-of-stream event: whenever the
\* generator has stopped, whatever the upstream lines and the tool-call
\* arguments were, the last thing it did was to yield end-of-stream.
\* ------------------------------------------------------------------------
C1_EveryRunEndsWithEos ==
    Stopped => (trace # <<>> /\ Last(trace).ev = "eos")

\* ------------------------------------------------------------------------
\* C2 - at most one end-of-stream event is emitted in a run, and nothing
\* (no content, error or end-of-stream event, no upstream call, no tool
\* execution, no retrieval call) follows it: an eos entry is the last entry
\* of the trace and the generator has returned.
\* ------------------------------------------------------------------------
C2_EosIsTerminal ==
    /\ Count("eos") <= 1
    /\ \A i \in 1..Len(trace) : trace[i].ev = "eos" => i = Len(trace)
    /\ Count("eos") = 1 => pc = "done"

\* A run that forwarded content, ran a tool round, called upstream again
\* and then emitted end-of-stream.
C2_Witness ==
    /\ pc = "done"
    /\ Count("eos") = 1
    /\ Count("call") >= 2
    /\ Count("exec") >= 1
    /\ Count("content") >= 1

\* ------------------------------------------------------------------------
\* C3 - the entry directly after an error event is an end-of-stream event,
\* which is the last entry: no content event, second error event, upstream
\* call or tool execution follows an error event.
\* ------------------------------------------------------------------------
C3_ErrorThenEos ==
    \A i \in 1..Len(trace) :
        trace[i].ev = "error" =>
            /\ i + 1 = Len(trace)
            /\ trace[i + 1].ev = "eos"

\* An error event emitted after content was forwarded and after a tool
\* round, in the second upstream call.
C3_Witness ==
    /\ Count("error") = 1
    /\ Count("content") >= 1
    /\ Count("exec") >= 1
    /\ Count("call") = 2

\* ------------------------------------------------------------------------
\* C4 - when the model requests tools in every upstream response, the run
\* issues exactly max_iterations upstream calls, then emits one error event
\* for the exhausted loop limit followed by end-of-stream; no run issues
\* more than max_iterations upstream calls.
\* ------------------------------------------------------------------------
C4_LoopLimit ==
    /\ Count("call") <= max_iterations
    /\ ( /\ Stopped
         /\ Count("call") >= 1
         /\ Count("resp") = Count("call")
         /\ \A i \in 1..Count("resp") : RequestedTools(Entries("resp")[i]) )
       => /\ Count("call") = max_iterations
          /\ Count("error") = 1
          /\ Len(trace) >= 2
          /\ trace[Len(trace) - 1] = ErrorEvent("loop")
          /\ Last(trace).ev = "eos"

\* The first response requests the retrieval tool once and the second
\* response answers without tool calls.
C5_Scenario ==
    /\ Count("resp") >= 2
    /\ RequestedTools(Entries("resp")[1])
    /\ Len(Entries("resp")[1].tool_calls) = 1
    /\ Entries("resp")[1].tool_calls[1].name = RAG_TOOL_NAME
    /\ Answered(Entries("resp")[2])

\* ------------------------------------------------------------------------
\* C5 - when the first response requests the retrieval tool once and the
\* second response answers without tool calls, the run handles exactly one
\* requested call (calling the retrieval client once when the arguments
\* carry a query), appends exactly one assistant turn and one tool turn to
\* the message list, issues exactly 2 upstream calls, and ends with
\* end-of-stream and no error event.
\* ------------------------------------------------------------------------
C5_OneToolRoundThenAnswer ==
    C5_Scenario =>
        /\ pc \in {"after", "done"}
        /\ Count("call") = 2
        /\ Count("exec") = 1
        /\ Count("rag") =
              IF ParseArgs(Entries("resp")[1].tool_calls[1].arguments) = "query"
              THEN 1 ELSE 0
        /\ Count("error") = 0
        /\ Len(messages) = Len(BuildMessages(history)) + 2
        /\ SubSeq(messages, 1, Len(messages) - 2) = BuildMessages(history)
        /\ messages[Len(messages) - 1].role = "assistant"
        /\ messages[Len(messages) - 1].tool_calls = Entries("resp")[1].tool_calls
        /\ Last(messages).role = "tool"
        /\ Last(messages).tool_call_id = Entries("resp")[1].tool_calls[1].id
        /\ Entries("call")[2].messages = messages
        /\ pc = "done" => Last(trace).ev = "eos"

\* The scenario has run to its end with a retrieval call made.
C5_Witness ==
    /\ C5_Scenario
    /\ pc = "done"
    /\ Count("rag") = 1
    /\ Last(trace).ev = "eos"

\* ------------------------------------------------------------------------
\* C6 - the tool_choice sent upstream is "auto" in the first call and
\* "none" in every later call (each of which follows a tool round); it
\* never goes back to "auto".
\* ------------------------------------------------------------------------
C6_ToolChoice ==
    /\ \A k \in 1..Count("call") :
          Entries("call")[k].tool_choice = IF k = 1 THEN "auto" ELSE "none"
    /\ \A j \in ToolRounds :
          FirstAfter("call", j) # 0 => trace[FirstAfter("call", j)].tool_choice = "none"

\* Three upstream calls were issued, two of them after a tool round.
C6_Witness == Count("call") = 3 /\ Cardinality(ToolRounds) >= 2

\* The list `after` is `before` plus the assistant turn of the round and one
\* tool turn per requested call, in request order.
RoundAppended(before, after, tcs) ==
    /\ Len(after) = Len(before) + 1 + Len(tcs)
    /\ SubSeq(after, 1, Len(before)) = before
    /\ after[Len(before) + 1].role = "assistant"
    /\ after[Len(before) + 1].tool_calls = tcs
    /\ \A i \in 1..Len(tcs) :
          /\ after[Len(before) + 1 + i].role = "tool"
          /\ after[Len(before) + 1 + i].tool_call_id = tcs[i].id

\* ------------------------------------------------------------------------
\* C7 - after a tool round with n requested calls the message list has
\* grown by one assistant turn carrying the full tool_calls list in request
\* order, followed by exactly n tool turns, the i-th carrying the
\* tool_call_id of the i-th requested call: one tool turn per requested
\* call, whether the tool is known, unknown or its arguments are bad.
\* ------------------------------------------------------------------------
C7_RoundAppendsTurnsInOrder ==
    \A j \in ToolRounds :
        RoundOver(j) =>
            RoundAppended(MessagesBefore(j), MessagesAfter(j), trace[j].tool_calls)

\* ------------------------------------------------------------------------
\* C8 - a tool call is handled only after the response that carried it has
\* signalled completion, by a finish reason or by the done sentinel; a
\* response that closes without either never leads to a tool execution.
\* ------------------------------------------------------------------------
C8_ExecOnlyAfterCompletion ==
    \A j \in 1..Len(trace) :
        trace[j].ev = "exec" =>
            LET r == trace[LastBefore("resp", j)]
            IN  r.how = "done" \/ r.finish_seen

\* ------------------------------------------------------------------------
\* C9 - a requested call to the retrieval tool whose arguments cannot be
\* used (not JSON, JSON that is not an object, an object without a
\* non-empty query) gets a tool turn carrying an error text, makes no
\* retrieval call, and the run goes on with the next requested call or the
\* next iteration instead of aborting.
\* ------------------------------------------------------------------------
C9_UnusableArgsBecomeToolTurn ==
    ( /\ trace # <<>>
      /\ Last(trace).ev = "exec"
      /\ Last(trace).name = RAG_TOOL_NAME
      /\ ParseArgs(Last(trace).arguments) # "query" )
    => /\ pc \in {"tools", "loop"}
       /\ Last(messages).role = "tool"
       /\ Last(messages).tool_call_id = Last(trace).id
       /\ Last(messages).content.kind = "invalid_args"

\* The message at position pos is the "Unknown tool" turn of the call tc.
UnknownToolTurn(after, pos, tc) ==
    /\ Len(after) >= pos
    /\ after[pos] = ToolMessage(tc.id, tc.name, UnknownToolContent(tc.name))

\* ------------------------------------------------------------------------
\* C10 - a requested call whose function name is not the retrieval tool
\* (a missing name included) gets exactly one tool turn with the "Unknown
\* tool" error content and its tool_call_id, no retrieval call is made for
\* it, and the loop goes on to its next iteration.
\* ------------------------------------------------------------------------
C10_UnknownToolGetsErrorTurn ==
    \A j \in ToolRounds :
        RoundOver(j) =>
            \A i \in 1..Len(trace[j].tool_calls) :
                LET tc == trace[j].tool_calls[i]
                IN  tc.name # RAG_TOOL_NAME =>
                      /\ UnknownToolTurn(MessagesAfter(j),
                                         Len(MessagesBefore(j)) + 1 + i, tc)
                      /\ \A k \in (j + 1)..Len(trace) :
                            (trace[k].ev = "rag"
                               /\ trace[k].iteration = trace[LastBefore("call", j)].iteration)
                            => trace[k].id # tc.id
                      /\ (FirstAfter("call", j) = 0 => pc \in {"loop", "done"})

\* Positions of the trace where a malformed data line was read.
MalformedLines ==
    {i \in 1..Len(trace) :
        trace[i].ev = "line" /\ trace[i].kind \in SkippedLines \cup FatalLines}

\* ------------------------------------------------------------------------
\* C11 - a malformed data line (not JSON, a payload that is not an object,
\* an empty or null choices list, a null delta) is skipped: what follows it
\* in the trace is the log record of the skipped chunk, not an error event
\* and not the end of the response, and once it is handled the generator is
\* still reading the same response.
\* ------------------------------------------------------------------------
C11_MalformedLineSkipped ==
    \A i \in MalformedLines :
        /\ i < Len(trace)
        /\ trace[i + 1] = ChunkErrorLogged
        /\ (i + 1 = Len(trace)) => (pc = "stream" /\ response_open)

\* The payloads of the well-formed data lines of the response that ends at
\* position j of the trace, in arrival order.
ResponseChunks(j) ==
    LET lines == SelectSeq(SubSeq(trace, LastBefore("call", j) + 1, j - 1),
                           LAMBDA e : e.ev = "line" /\ e.kind = "chunk")
    IN  [k \in 1..Len(lines) |-> lines[k].chunk]

\* All tool-call delta fragments of a sequence of chunks, in arrival order.
RECURSIVE DeltasOf(_)
DeltasOf(chunks) ==
    IF chunks = <<>> THEN <<>>
    ELSE Head(chunks).tool_calls \o DeltasOf(Tail(chunks))

\* The fragments received for one index.
ReceivedFor(ds, idx) == SelectSeq(ds, LAMBDA d : d.index = idx)

\* The first non-empty value of a sequence of values (None if there is none).
RECURSIVE FirstNonEmpty(_)
FirstNonEmpty(values) ==
    IF values = <<>> THEN None
    ELSE IF Head(values) # None THEN Head(values)
    ELSE FirstNonEmpty(Tail(values))

\* The argument fragments of a sequence of deltas, concatenated.
RECURSIVE ConcatArguments(_)
ConcatArguments(ds) ==
    IF ds = <<>> THEN <<>>
    ELSE Head(ds).arguments \o ConcatArguments(Tail(ds))

\* The table of the response was taken from message.tool_calls of a chunk
\* with finish_reason "tool_calls": no delta fragment came before it.
FallbackTaken(chunks) ==
    \E k \in 1..Len(chunks) :
        /\ chunks[k].finish_reason = "tool_calls"
        /\ chunks[k].message_tool_calls # <<>>
        /\ \A m \in 1..k : chunks[m].tool_calls = <<>>

\* ------------------------------------------------------------------------
\* C12 - at the end of a response whose tool calls came as delta fragments,
\* the accumulated table has, for every index a fragment was received for,
\* an entry whose id, type and function name are the first non-empty values
\* received for that index and whose arguments are the concatenation, in
\* arrival order, of all argument fragments received for that index.
\* ------------------------------------------------------------------------
C12_AccumulatedPerIndex ==
    \A j \in 1..Len(trace) :
        (trace[j].ev = "resp" /\ trace[j].how # "non_200"
           /\ ~FallbackTaken(ResponseChunks(j)))
        => LET ds == DeltasOf(ResponseChunks(j))
           IN  \A n \in 1..Len(ds) :
                 LET idx == ds[n].index
                     got == ReceivedFor(ds, idx)
                 IN  /\ Len(trace[j].tool_calls) >= idx + 1
                     /\ trace[j].tool_calls[idx + 1] =
                          [id |-> FirstNonEmpty([k \in 1..Len(got) |-> got[k].id]),
                           type |-> FirstNonEmpty([k \in 1..Len(got) |-> got[k].type]),
                           name |-> FirstNonEmpty([k \in 1..Len(got) |-> got[k].name]),
                           arguments |-> ConcatArguments(got)]

\* The table the merge of lines 471-516 builds from the delta fragments of
\* a sequence of chunks, starting from `table`.
RECURSIVE AccumulatedFrom(_, _)
AccumulatedFrom(table, chunks) ==
    IF chunks = <<>> THEN table
    ELSE AccumulatedFrom(MergeDeltas(table, Head(chunks).tool_calls).table,
                         Tail(chunks))

\* ------------------------------------------------------------------------
\* C13 - for a tool round whose response had a chunk with finish_reason
\* "tool_calls": when no tool call had been accumulated from deltas at that
\* chunk, the calls handled in the round are exactly message.tool_calls of
\* the chunk; when some had, the round handles the list accumulated from
\* the deltas and message.tool_calls plays no part.
\* ------------------------------------------------------------------------
C13_FinalizedToolCalls ==
    \A j \in ToolRounds :
        LET chunks == ResponseChunks(j)
        IN  \A k \in 1..Len(chunks) :
              chunks[k].finish_reason = "tool_calls" =>
                 IF DeltasOf(SubSeq(chunks, 1, k)) = <<>>
                 THEN trace[j].tool_calls = chunks[k].message_tool_calls
                 ELSE trace[j].tool_calls = AccumulatedFrom(<<>>, chunks)

\* ------------------------------------------------------------------------
\* C14 - when a response that carried finish_reason "tool_calls" leads to a
\* tool round, the events yielded to the caller contain, after the upstream
\* call of that response and before the first requested call is handled, a
\* tool_request event carrying the finalized tool-call list.
\* ------------------------------------------------------------------------
C14_ToolRequestEmitted ==
    \A j \in ToolRounds :
        ( /\ \E k \in 1..Len(ResponseChunks(j)) :
                ResponseChunks(j)[k].finish_reason = "tool_calls"
          /\ FirstAfter("exec", j) # 0 )
        => \E i \in (LastBefore("call", j) + 1)..(FirstAfter("exec", j) - 1) :
              /\ trace[i].ev = "tool_request"
              /\ trace[i].tool_calls = trace[j].tool_calls

\* ------------------------------------------------------------------------
\* C15 - an upstream call answered with a status other than 200 reads no
\* line of the response and is followed by exactly one error event carrying
\* the status code and the response body, then by end-of-stream, which ends
\* the run; on the first call and on a call that follows a tool round.
\* ------------------------------------------------------------------------
C15_Non200ErrorCarriesStatusAndBody ==
    \A j \in 1..Len(trace) :
        (trace[j].ev = "resp" /\ trace[j].how = "non_200") =>
            /\ trace[j - 1].ev = "call"
            /\ Len(trace) = j + 2
            /\ trace[j + 1].ev = "error"
            /\ trace[j + 1].status = trace[j].status
            /\ trace[j + 1].body = trace[j].body
            /\ trace[j + 2].ev = "eos"
            /\ pc = "done"

\* The events yielded to the caller, in order.
Events == SelectSeq(trace, LAMBDA e : e.ev \in {"content", "error", "eos"})

\* ------------------------------------------------------------------------
\* C16 - an upstream call that fails at network level, while connecting or
\* in the middle of the stream, is followed by exactly one error event,
\* whose message is not the one of an HTTP-status error, and then by
\* end-of-stream, which ends the run: no upstream call follows the failed
\* one.
\* ------------------------------------------------------------------------
C16_NetworkErrorEndsRun ==
    \A j \in 1..Len(trace) :
        (trace[j].ev = "resp" /\ trace[j].how = "network_error") =>
            /\ Len(trace) = j + 2
            /\ trace[j + 1] = ErrorEvent("network")
            /\ \A status \in ErrorStatuses, body \in ErrorBodies :
                  trace[j + 1] # ApiErrorEvent(status, body)
            /\ Count("error") = 1
            /\ trace[j + 2].ev = "eos"
            /\ FirstAfter("call", j) = 0
            /\ pc = "done"

\* The network failed in the middle of a stream, right after a content
\* event had been forwarded.
C16_Witness ==
    \E j \in 2..Len(trace) :
        /\ trace[j].ev = "resp"
        /\ trace[j].how = "network_error"
        /\ trace[j - 1].ev = "content"
        /\ pc = "done"

\* ------------------------------------------------------------------------
\* C17 - when the API key is not configured, the run consists of exactly
\* one error event followed by exactly one end-of-stream event: nothing
\* else is emitted, no upstream call and no retrieval call is made.
\* ------------------------------------------------------------------------
C17_MissingApiKey ==
    ~api_key =>
        /\ pc \in {"entry", "done"}
        /\ pc = "entry" => trace = <<>>
        /\ pc = "done" => trace = <<ErrorEvent("config"), EosEvent("config")>>
        /\ Count("call") = 0
        /\ Count("rag") = 0

\* A run without API key has ended.
C17_Witness ==
    /\ ~api_key
    /\ pc = "done"
    /\ Events = <<ErrorEvent("config"), EosEvent("config")>>

\* The response that ends at position j of the trace carried no tool call:
\* no chunk of it has delta.tool_calls or message.tool_calls.
NoToolCallIn(j) ==
    \A k \in 1..Len(ResponseChunks(j)) :
        /\ ResponseChunks(j)[k].tool_calls = <<>>
        /\ ResponseChunks(j)[k].message_tool_calls = <<>>

\* ------------------------------------------------------------------------
\* C18 - when the first response carries no tool call and is read up to
\* the done sentinel, or up to the line that ends the run before it
\* (finish_reason "stop", or a line that raises), the run emits exactly one
\* end-of-stream event, which is its last event, handles no requested call
\* and has made exactly one upstream call; the single content chunk "a"
\* followed by the done sentinel gives the events content "a",
\* end-of-stream.
\* ------------------------------------------------------------------------
C18_NoToolCallThenDone ==
    \A j \in 1..Len(trace) :
        ( /\ trace[j].ev = "resp"
          /\ trace[LastBefore("call", j)].iteration = 1
          /\ trace[j].how \in {"done", "stop", "unexpected_error"}
          /\ NoToolCallIn(j) )
        => /\ pc = "done"
           /\ Count("eos") = 1
           /\ Last(trace).ev = "eos"
           /\ Count("exec") = 0
           /\ Count("rag") = 0
           /\ Count("call") = 1
           /\ ( /\ trace[j].how = "done"
                /\ ResponseChunks(j) = <<Chunk(<<>>, TRUE, <<"a">>, None, <<>>)>>
                /\ Count("chunk_error_logged") = 0 )
              => Events = <<ContentEvent(<<"a">>), EosEvent("done")>>

\* One content chunk, then the done sentinel.
C18_Witness ==
    /\ pc = "done"
    /\ Count("line") = 2
    /\ Count("call") = 1
    /\ Events = <<ContentEvent(<<"a">>), EosEvent("done")>>

\* ------------------------------------------------------------------------
\* C19 - every decoded chunk with delta.content present, the empty string
\* included, is directly followed by one content event carrying that text,
\* a chunk without delta.content by none, and every content event comes
\* from such a chunk: the content events are the contents of the chunks in
\* arrival order.
\* ------------------------------------------------------------------------
C19_ContentForwarded ==
    /\ \A i \in 1..Len(trace) :
          (trace[i].ev = "line" /\ trace[i].kind = "chunk") =>
             IF trace[i].chunk.has_content
             THEN /\ i < Len(trace)
                  /\ trace[i + 1] = ContentEvent(trace[i].chunk.content)
             ELSE i < Len(trace) => trace[i + 1].ev # "content"
    /\ \A i \in 1..Len(trace) :
          trace[i].ev = "content" =>
             /\ i > 1
             /\ trace[i - 1].ev = "line"
             /\ trace[i - 1].kind = "chunk"
             /\ trace[i - 1].chunk.has_content

\* ------------------------------------------------------------------------
\* C20 - when the run has ended, by a return on any path or by an
\* exception, neither the response stream of an upstream call nor the HTTP
\* client of the run is open.
\* ------------------------------------------------------------------------
C20_NothingLeftOpen ==
    Stopped => (~client_open /\ ~response_open)

\* A run that ended on a non-200 answer to the call after a tool round.
C20_Witness ==
    /\ Stopped
    /\ Count("exec") >= 1
    /\ Count("resp") = 2
    /\ Entries("resp")[2].how = "non_200"

\* s is a prefix of t.
IsPrefix(s, t) == Len(s) <= Len(t) /\ SubSeq(t, 1, Len(s)) = s

\* ------------------------------------------------------------------------
\* C21 - within one run the message list is append-only: every step leaves
\* the list as it was or extends it at the end, so the list sent by an
\* upstream call is a prefix of the list sent by the next one (which is
\* longer, a tool round lying between them) and of the current list; the
\* list starts with the messages built from the request, and the history
\* of the request is never modified.
\* ------------------------------------------------------------------------
C21_MessagesAppendOnly ==
    /\ [][IsPrefix(messages, messages') /\ history' = history]_vars
    /\ [](\A k \in 1..Count("call") :
            /\ IsPrefix(BuildMessages(history), Entries("call")[k].messages)
            /\ IsPrefix(Entries("call")[k].messages, messages)
            /\ k > 1 => /\ IsPrefix(Entries("call")[k - 1].messages,
                                    Entries("call")[k].messages)
                        /\ Len(Entries("call")[k - 1].messages)
                              < Len(Entries("call")[k].messages))

\* Three upstream calls were issued, each with a longer list, for a request
\* that carried a history.
C21_Witness ==
    /\ Count("call") = 3
    /\ history # <<>>
    /\ Len(Entries("call")[3].messages) >= Len(BuildMessages(history)) + 4

\* ------------------------------------------------------------------------
\* Termination
\* ------------------------------------------------------------------------

\* Every upstream response ends (it closes, fails or delivers its last
\* line), every retrieval call returns, and the consumer keeps iterating
\* the generator: a step that can be taken is eventually taken.
FairSpec == Spec /\ WF_vars(Next)

\* ------------------------------------------------------------------------
\* C22 - provided every upstream response and every retrieval call ends,
\* every run terminates (it returns, or an exception leaves it), and it
\* never issues more than max_iterations upstream calls.
\* ------------------------------------------------------------------------
C22_RunTerminates ==
    /\ <>Stopped
    /\ [](Count("call") <= max_iterations)

\* A run that stopped after max_iterations upstream calls.
C22_Witness == Stopped /\ Count("call") = max_iterations

\* The snippet texts of the model: short, padded with blanks, at and just
\* above 7000 // 5, two that add up to a 7500-character block, and one
\* above the overall limit.
SnippetTexts ==
    { Run("x", 10),
      TCat(TCat(Run(" ", 2), Run("x", 1)), Run(" ", 2)),
      Run("x", 36),
      Run("x", 1400),
      Run("x", 1401),
      Run("x", 3654),
      Run("x", 3700),
      Run("x", 7500) }

TopKs == {1, 5, 141}

\* The state while no run of generate_chat_completion_stream is looked at.
RunUnused ==
    /\ pc = "unused"
    /\ api_key = FALSE
    /\ history = <<>>
    /\ query = None
    /\ messages = <<>>
    /\ tool_choice_setting = "auto"
    /\ iteration_count = 0
    /\ full_response_content = <<>>
    /\ tool_calls_to_process = <<>>
    /\ tool_index = 0
    /\ finish_seen = FALSE
    /\ client_open = FALSE
    /\ response_open = FALSE
    /\ lines_read = 0
    /\ trace = <<>>

RagInit ==
    /\ rag_pc = "start"
    /\ rag_impl \in RagImpls
    /\ rag_env \in RagEnvironments
    /\ top_k \in TopKs
    /\ results \in IF rag_env \in {"results", "malformed_result"}
                   THEN UNION {[1..n -> SnippetTexts] : n \in 1..MaxResults}
                   ELSE {<<>>}
    /\ rag_i = 0
    /\ context_str = <<>>
    /\ rag_return = <<>>
    /\ RunUnused
    /\ BuildUnused
    /\ AppUnused
    /\ PxUnused

\* return of the client.
RagReturn(text) ==
    /\ rag_return' = text
    /\ rag_pc' = "returned"

\* An exception inside the try block: the handler returns the error text,
\* or the exception leaves the client.
RagRaise(exception) ==
    IF RagCatches(exception)
    THEN RagReturn(RagExceptionError)
    ELSE rag_pc' = "raised" /\ UNCHANGED rag_return

\* Lines 59-61 (rag.py 24-26).
RagUrlNotConfigured ==
    /\ rag_pc = "start"
    /\ rag_env = "url_not_configured"
    /\ RagReturn(RagUrlError)
    /\ UNCHANGED <<rag_impl, rag_env, top_k, results, rag_i, context_str>>

\* Lines 62-71, 121-125 (rag.py 28-38, 65-67).
RagRequestFails ==
    /\ rag_pc = "start"
    /\ rag_env \in {"transport_error", "bad_status", "bad_body"}
    /\ RagRaise(rag_env)
    /\ UNCHANGED <<rag_impl, rag_env, top_k, results, rag_i, context_str>>

\* Lines 72-77 (rag.py 38-40).
RagNoResults ==
    /\ rag_pc = "start"
    /\ rag_env = "no_results"
    /\ RagReturn(NoSnippetsText)
    /\ UNCHANGED <<rag_impl, rag_env, top_k, results, rag_i, context_str>>

\* Line 79 (rag.py 42).
RagBeginBlock ==
    /\ rag_pc = "start"
    /\ rag_env \in {"results", "malformed_result"}
    /\ context_str' = RagHeader
    /\ rag_pc' = "loop"
    /\ UNCHANGED <<rag_impl, rag_env, top_k, results, rag_i, rag_return>>

\* Lines 80-108 (rag.py 45-55): one pass of the for loop.
RagFormatSnippet ==
    /\ rag_pc = "loop"
    /\ rag_i < Len(results)
    /\ IF rag_env = "malformed_result"
       THEN /\ RagRaise("malformed_result")
            /\ UNCHANGED <<rag_i, context_str>>
       ELSE /\ context_str' =
                  TCat(TCat(TCat(context_str, SnippetHead(rag_i + 1)),
                            InsertedText(rag_impl, results[rag_i + 1], top_k)),
                       SnippetTail)
            /\ rag_i' = rag_i + 1
            /\ UNCHANGED <<rag_pc, rag_return>>
    /\ UNCHANGED <<rag_impl, rag_env, top_k, results>>

\* Lines 113-120 (rag.py 57-63).  context_str keeps the concatenation the
\* truncation was applied to.
RagReturnBlock ==
    /\ rag_pc = "loop"
    /\ rag_i = Len(results)
    /\ RagReturn(Strip(TruncateOverall(context_str)))
    /\ UNCHANGED <<rag_impl, rag_env, top_k, results, rag_i, context_str>>

RagNext ==
    \/ RagUrlNotConfigured /\ UNCHANGED <<run_vars, build_vars, app_vars, px_vars>>
    \/ RagRequestFails /\ UNCHANGED <<run_vars, build_vars, app_vars, px_vars>>
    \/ RagNoResults /\ UNCHANGED <<run_vars, build_vars, app_vars, px_vars>>
    \/ RagBeginBlock /\ UNCHANGED <<run_vars, build_vars, app_vars, px_vars>>
    \/ RagFormatSnippet /\ UNCHANGED <<run_vars, build_vars, app_vars, px_vars>>
    \/ RagReturnBlock /\ UNCHANGED <<run_vars, build_vars, app_vars, px_vars>>

RagSpec == RagInit /\ [][RagNext]_vars

\* ------------------------------------------------------------------------
\* C23 - the block returned for a non-empty result set has at most 7000
\* characters, whatever the number and the sizes of the results and
\* whatever top_k >= 1; when the concatenation was longer than 7000 the
\* block ends with the overall truncation marker (so a concatenation of
\* 7500 characters is cut to at most 7000 with the marker at its end).
\* ------------------------------------------------------------------------
C23_BlockWithinLimit ==
    (rag_pc = "returned" /\ rag_env = "results") =>
        /\ TLen(rag_return) <= MAX_RAG_SNIPPET_LEN_FOR_LLM
        /\ TLen(context_str) > MAX_RAG_SNIPPET_LEN_FOR_LLM
              => EndsWith(rag_return, OverallMarker)
        /\ TLen(context_str) <= MAX_RAG_SNIPPET_LEN_FOR_LLM
              => rag_return = Strip(context_str)

\* A concatenation of exactly 7500 characters was returned cut.
C23_Witness ==
    /\ rag_pc = "returned"
    /\ rag_env = "results"
    /\ TLen(context_str) = 7500
    /\ EndsWith(rag_return, OverallMarker)

\* The environments in which the retrieval fails.
RagFailures ==
    {"url_not_configured", "transport_error", "bad_status", "bad_body",
     "malformed_result"}

C25_TruncationIdempotent ==
    /\ \A n \in 1..rag_i :
          LET text == results[n]
              once == TruncateSnippet(rag_impl, text, top_k)
          IN  /\ TLen(text) <= MaxIndividualSnippetLen(top_k)
                    => InsertedText(rag_impl, text, top_k) = text
              /\ TruncateSnippet(rag_impl, once, top_k) = once
    /\ (rag_pc = "returned" /\ rag_env = "results") =>
          /\ TruncateOverall(TruncateOverall(context_str)) = TruncateOverall(context_str)
          /\ TruncateOverall(rag_return) = rag_return

\* ========================================================================
\* The prompt builder: _build_llm_payload_messages (lines 128-359)
\* ========================================================================

\* ------------------------------------------------------------------------
\* The values a context mapping can hold (decoded JSON), and the Python
\* operations the builder applies to them.  A mapping keeps its keys in
\* order: pairs is a sequence of [k, v].
\* ------------------------------------------------------------------------

PyAbsent == [type |-> "absent"]

PyNull == [type |-> "null"]

PyStr(t) == [type |-> "str", text |-> t]

PyNum(n) == [type |-> "num", n |-> n]

PyList(items) == [type |-> "list", items |-> items]

PyDict(pairs) == [type |-> "dict", pairs |-> pairs]

\* bool(v): None, "", 0, [] and {} are false.
Truthy(v) ==
    CASE v.type = "str" -> v.text # <<>>
      [] v.type = "num" -> v.n # 0
      [] v.type = "list" -> v.items # <<>>
      [] v.type = "dict" -> v.pairs # <<>>
      [] OTHER -> FALSE

\* The text of a key or of another literal word.
Word(k) == Run(k, Len(k))

HasKey(d, k) == \E i \in 1..Len(d.pairs) : d.pairs[i].k = k

\* d.get(k, default) of a mapping.
DictGet(d, k, default) ==
    IF HasKey(d, k)
    THEN d.pairs[CHOOSE i \in 1..Len(d.pairs) : d.pairs[i].k = k].v
    ELSE default

\* context_data.get(k): None for a missing key.
ContextGet(ctx, k) == IF ctx[k].type = "absent" THEN PyNull ELSE ctx[k]

\* sep.join(parts)
RECURSIVE Join(_, _)
Join(parts, sep) ==
    IF parts = <<>> THEN <<>>
    ELSE IF Len(parts) = 1 THEN parts[1]
    ELSE TCat(TCat(parts[1], sep), Join(Tail(parts), sep))

NL == Run("\n", 1)

\* "s in t" of two strings.
Contains(t, s) ==
    \E k \in 0..(TLen(t) - TLen(s)) : TTake(TDrop(t, k), TLen(s)) = s

\* t[k:] of Python: a negative k counts from the end.
PySliceFrom(t, k) ==
    IF k >= 0 THEN TDrop(t, k)
    ELSE TDrop(t, IF TLen(t) + k > 0 THEN TLen(t) + k ELSE 0)

\* repr(v), which str(v) and an f-string use for a value inside a list or
\* a mapping.
RECURSIVE PyRepr(_)
PyRepr(v) ==
    CASE v.type = "str" -> TCat(TCat(Run("'", 1), v.text), Run("'", 1))
      [] v.type = "num" -> Run("digit", Digits(v.n))
      [] v.type = "list" ->
            TCat(TCat(Run("[", 1),
                      Join([i \in 1..Len(v.items) |-> PyRepr(v.items[i])],
                           TCat(Run(",", 1), Run(" ", 1)))),
                 Run("]", 1))
      [] v.type = "dict" ->
            TCat(TCat(Run("{", 1),
                      Join([i \in 1..Len(v.pairs) |->
                               TCat(TCat(TCat(TCat(Run("'", 1), Word(v.pairs[i].k)),
                                              Run("'", 1)),
                                         TCat(Run(":", 1), Run(" ", 1))),
                                    PyRepr(v.pairs[i].v))],
                           TCat(Run(",", 1), Run(" ", 1)))),
                 Run("}", 1))
      [] OTHER -> Word("None")

\* f"{v}": a string is inserted as it is, any other value by its repr.
Format(v) == IF v.type = "str" THEN v.text ELSE PyRepr(v)

\* json.dumps(v, indent=2) at nesting depth lvl.
RECURSIVE JsonDumps(_, _)
JsonDumps(v, lvl) ==
    LET pad(n) == Run(" ", 2 * n)
        sep == TCat(Run(",", 1), NL)
    IN  CASE v.type = "str" -> TCat(TCat(Run("\"", 1), v.text), Run("\"", 1))
          [] v.type = "num" -> Run("digit", Digits(v.n))
          [] v.type = "list" ->
                IF v.items = <<>> THEN TCat(Run("[", 1), Run("]", 1))
                ELSE TCat(TCat(TCat(TCat(Run("[", 1), NL),
                          Join([i \in 1..Len(v.items) |->
                                   TCat(pad(lvl + 1), JsonDumps(v.items[i], lvl + 1))],
                               sep)),
                          TCat(NL, pad(lvl))), Run("]", 1))
          [] v.type = "dict" ->
                IF v.pairs = <<>> THEN TCat(Run("{", 1), Run("}", 1))
                ELSE TCat(TCat(TCat(TCat(Run("{", 1), NL),
                          Join([i \in 1..Len(v.pairs) |->
                                   TCat(TCat(TCat(pad(lvl + 1),
                                        TCat(TCat(Run("\"", 1), Word(v.pairs[i].k)),
                                             Run("\"", 1))),
                                        TCat(Run(":", 1), Run(" ", 1))),
                                        JsonDumps(v.pairs[i].v, lvl + 1))],
                               sep)),
                          TCat(NL, pad(lvl))), Run("}", 1))
          [] OTHER -> Word("null")

\* Result of an operation that may raise.
Ok(value) == [raised |-> None, value |-> value]

Raises(exception) == [raised |-> exception, value |-> FALSE]

\* len(v)
PyLen(v) ==
    CASE v.type = "str" -> Ok(TLen(v.text))
      [] v.type = "list" -> Ok(Len(v.items))
      [] v.type = "dict" -> Ok(Len(v.pairs))
      [] OTHER -> Raises("TypeError")

\* "x in v": substring of a string, element of a list, key of a mapping.
PyIn(x, v) ==
    CASE v.type = "str" ->
            IF x.type = "str" THEN Ok(Contains(v.text, x.text))
            ELSE Raises("TypeError")
      [] v.type = "list" -> Ok(\E i \in 1..Len(v.items) : v.items[i] = x)
      [] v.type = "dict" ->
            IF x.type \in {"list", "dict"} THEN Raises("TypeError")
            ELSE Ok(x.type = "str"
                    /\ \E i \in 1..Len(v.pairs) : Word(v.pairs[i].k) = x.text)
      [] OTHER -> Raises("TypeError")

\* v[-k:] (k > 0): the last k characters of a string or items of a list.
PyTail(v, k) ==
    CASE v.type = "str" -> Ok(PyStr(PySliceFrom(v.text, 0 - k)))
      [] v.type = "list" ->
            Ok(PyList(SubSeq(v.items,
                             IF Len(v.items) > k THEN Len(v.items) - k + 1 ELSE 1,
                             Len(v.items))))
      [] OTHER -> Raises("TypeError")

\* v[:k] (k >= 0)
PyHead(v, k) ==
    CASE v.type = "str" -> Ok(PyStr(PySliceTo(v.text, k)))
      [] v.type = "list" ->
            Ok(PyList(SubSeq(v.items, 1, IF Len(v.items) > k THEN k ELSE Len(v.items))))
      [] OTHER -> Raises("TypeError")

\* ------------------------------------------------------------------------
\* The texts of the builder
\* ------------------------------------------------------------------------

MAX_CAPTURED_ERROR_LEN == 6000

MAX_GENERAL_CONSOLE_LEN == 1000

\* The fixed instruction text (lines 135-234).
FixedSystemPrompt == Run("fixed_system_prompt", 7068)

\* system_prompt_override or (fixed text)
SystemPromptContent(override) ==
    IF Truthy(override) THEN override.text ELSE FixedSystemPrompt

\* msg_content_model.model_dump(exclude_none=True)
ModelDump(msg) ==
    [f \in {g \in DOMAIN msg : msg[g].type # "null"} |-> msg[f]]

\* "Error:" and "No specific code snippets found"
ErrorLiteral == Run("Error:", 6)

NoSnippetsLiteral == Run("no_snippets", 31)

\* The three backquotes of a code fence.
Fence == Run("fence", 3)

\* "## Retrieved uiautomator2 Code Snippets (...):\n{rag_code_snippets}"
RagSection(v) == TCat(TCat(Run("rag_header", 77), NL), Format(v))

\* "\n... (Full Traceback Truncated due to excessive length) ...\n"
TracebackMarker == TCat(TCat(NL, Run("tb_marker", 58)), NL)

\* Lines 262-271: head and tail of a traceback longer than
\* MAX_CAPTURED_ERROR_LEN around the marker.
ErrorContentForLlm_KeepAll(v) == Ok(Format(v))

ErrorContentForLlm(v) ==
    IF PyLen(v).raised # None THEN PyLen(v)
    ELSE IF PyLen(v).value > MAX_CAPTURED_ERROR_LEN
    THEN LET half_len == MAX_CAPTURED_ERROR_LEN \div 2
             start_slice_len == IF half_len - 50 > 0 THEN half_len - 50 ELSE 0
             end_slice_start_offset == IF half_len - 50 > 0 THEN half_len - 50 ELSE 0
             head == PyHead(v, start_slice_len)
             tail == PyTail(v, end_slice_start_offset)
         IN  IF head.raised # None THEN head
             ELSE Ok(TCat(TCat(Format(head.value), TracebackMarker),
                          Format(tail.value)))
    ELSE Ok(Format(v))

\* Lines 272-277.
TracebackSection(text) ==
    TCat(TCat(TCat(TCat(TCat(Run("tb_header", 57), NL),
                        TCat(Run("tb_intro", 124), NL)),
                   TCat(TCat(Fence, Word("text")), NL)),
              TCat(text, NL)),
         Fence)

\* The properties kept for a selected element (lines 293-301).
KeptProperties ==
    {"resource-id", "text", "content-desc", "class", "package", "clickable",
     "enabled"}

\* se_brief of one element (lines 286-306); properties.items() raises
\* AttributeError unless properties is a mapping.
SeBrief(elem) ==
    LET properties == DictGet(elem, "properties", PyDict(<<>>))
    IN  IF properties.type # "dict" THEN Raises("AttributeError")
        ELSE Ok(PyDict(<<
                 [k |-> "name", v |-> DictGet(elem, "name", PyNull)],
                 [k |-> "properties",
                  v |-> PyDict(SelectSeq(properties.pairs,
                                         LAMBDA p : p.k \in KeptProperties))],
                 [k |-> "rect", v |-> DictGet(elem, "rect", PyNull)],
                 [k |-> "generatedXPath", v |-> DictGet(elem, "generatedXPath", PyNull)],
                 [k |-> "key_for_reference", v |-> DictGet(elem, "key", PyNull)]>>))

\* Line 308: the description of element i (counted from 1).
ElementDetail(i, elem) ==
    TCat(TCat(TCat(TCat(TCat(Run("elem_head", 13), Run("digit", Digits(i))),
                        TCat(Run("elem_mid", 30),
                             Format(DictGet(elem, "key", PyStr(Word("N/A")))))),
                   TCat(TCat(Run(")", 1), Run(":", 1)), NL)),
              TCat(TCat(TCat(Fence, Word("json")), NL),
                   TCat(JsonDumps(SeBrief(elem).value, 0), NL))),
         Fence)

\* The elements of the list that are mappings, with their positions.
DictElements(v) == SelectSeq([i \in 1..Len(v.items) |-> [i |-> i, elem |-> v.items[i]]],
                             LAMBDA e : e.elem.type = "dict")

\* Lines 311-314.
SelectedElementsSection(details) ==
    TCat(TCat(TCat(Run("sel_header", 26), Run("digit", Digits(Len(details)))),
              TCat(TCat(Run(")", 1), Run(":", 1)), NL)),
         Join(details, Run("\n", 2)))

\* Lines 319-322.
HierarchySection(root_name, num_children) ==
    TCat(TCat(TCat(Run("hier_head", 44), Format(root_name)),
              TCat(Run("hier_mid", 7), Run("digit", Digits(num_children)))),
         Run("hier_end", 17))

\* Lines 332-336.
ConsoleSection(truncated_general_output) ==
    TCat(TCat(TCat(TCat(Run("console_header", 59), NL),
                   TCat(Run("console_note", 109), NL)),
              TCat(TCat(Fence, NL), TCat(Format(truncated_general_output), NL))),
         Fence)

\* Line 340.
CodeSection(v) ==
    TCat(TCat(TCat(TCat(Run("code_header", 34), NL),
                   TCat(TCat(Fence, Word("python")), NL)),
              TCat(Format(v), NL)),
         Fence)

\* Line 344.
DeviceInfoSection(v) ==
    TCat(TCat(TCat(TCat(Run("dev_header", 16), NL),
                   TCat(TCat(Fence, Word("json")), NL)),
              TCat(JsonDumps(v, 0), NL)),
         Fence)

\* Lines 349-350.
ToolContextSection(parts) ==
    TCat(TCat(Run("tool_header", 41), NL), Join(parts, Run("\n", 2)))

\* "## User Request:\n{user_prompt}"
UserRequest(prompt) == TCat(TCat(Run("request_header", 16), NL), prompt)

\* Lines 353-356.
FullUserContent(sections, prompt) ==
    TCat(IF sections = <<>> THEN <<>>
         ELSE TCat(Join(sections, Run("\n", 2)), Run("\n", 2)),
         UserRequest(prompt))

\* ------------------------------------------------------------------------
\* The inputs of the builder
\* ------------------------------------------------------------------------

ContextKeys ==
    {"rag_code_snippets", "pythonLastErrorTraceback", "selectedElements",
     "uiHierarchy", "pythonConsoleOutput", "pythonCode", "deviceInfo"}

BuildPrompts == {Word("hi"), Run("p", 5)}

\* system_prompt_override: not given, empty, a text.
Overrides == {PyNull, PyStr(<<>>), PyStr(Run("o", 20))}

\* ChatMessageContent number i of a history: user turns alternate with
\* tool turns; the fields that are not set are None.
HistoryEntry(i) ==
    IF i % 2 = 1
    THEN [role |-> PyStr(Word("user")), content |-> PyStr(Run("h", i)),
          name |-> PyNull, tool_call_id |-> PyNull, tool_calls |-> PyNull]
    ELSE [role |-> PyStr(Word("tool")), content |-> PyStr(Run("r", i)),
          name |-> PyStr(Run("f", 4)), tool_call_id |-> PyStr(Run("c", i)),
          tool_calls |-> PyNull]

BuildHistories == {[i \in 1..n |-> HistoryEntry(i)] : n \in 0..MaxHistory}

\* A selected element as the front end sends it, and one whose
\* properties is null.
ElementOk ==
    PyDict(<<[k |-> "name", v |-> PyStr(Run("n", 6))],
             [k |-> "properties",
              v |-> PyDict(<<[k |-> "text", v |-> PyStr(Run("t", 2))],
                             [k |-> "index", v |-> PyNum(3)]>>)],
             [k |-> "key", v |-> PyStr(Run("k", 4))]>>)

ElementNullProperties ==
    PyDict(<<[k |-> "name", v |-> PyStr(Run("n", 6))],
             [k |-> "properties", v |-> PyNull]>>)

\* The values tried for each recognized key.
ContextValues(key) ==
    CASE key = "rag_code_snippets" ->
            {PyAbsent, PyStr(Run("x", 10)), PyStr(RagExceptionError), PyNum(5)}
      [] key = "pythonLastErrorTraceback" ->
            {PyAbsent, PyStr(<<>>), PyStr(Run("T", 1)),
             PyStr(TCat(Run("a", 3000), Run("b", 3000))),
             PyStr(TCat(Run("a", 3000), Run("b", 3001))),
             PyNum(5)}
      [] key = "selectedElements" ->
            {PyAbsent, PyList(<<ElementOk>>), PyList(<<ElementNullProperties>>),
             PyList(<<PyStr(Run("s", 1))>>)}
      [] key = "uiHierarchy" ->
            {PyAbsent,
             PyDict(<<[k |-> "name", v |-> PyStr(Run("r", 4))],
                      [k |-> "children", v |-> PyList(<<PyNull, PyNull>>)]>>),
             PyStr(Run("s", 1))}
      [] key = "pythonConsoleOutput" ->
            {PyAbsent, PyStr(TCat(TCat(Run("c", 1), Run("T", 1)), Run("c", 1))),
             PyStr(Run("c", 1500))}
      [] key = "pythonCode" -> {PyAbsent, PyStr(Run("d", 30))}
      [] key = "deviceInfo" ->
            {PyAbsent, PyDict(<<[k |-> "model", v |-> PyStr(Run("m", 5))]>>)}

BuildContexts ==
    { [rag_code_snippets |-> r, pythonLastErrorTraceback |-> t,
       selectedElements |-> s, uiHierarchy |-> h, pythonConsoleOutput |-> c,
       pythonCode |-> p, deviceInfo |-> d] :
         r \in ContextValues("rag_code_snippets"),
         t \in ContextValues("pythonLastErrorTraceback"),
         s \in ContextValues("selectedElements"),
         h \in ContextValues("uiHierarchy"),
         c \in ContextValues("pythonConsoleOutput"),
         p \in ContextValues("pythonCode"),
         d \in ContextValues("deviceInfo") }

\* ------------------------------------------------------------------------
\* One call of the builder
\* ------------------------------------------------------------------------

BuildInit ==
    /\ build_pc = "start"
    /\ user_prompt \in BuildPrompts
    /\ context_data \in BuildContexts
    /\ build_history \in BuildHistories
    /\ system_prompt_override \in Overrides
    /\ messages_for_api = <<>>
    /\ context_sections_for_llm = <<>>
    /\ tool_context_specific_parts = <<>>
    /\ build_raised = None
    /\ RunUnused
    /\ RagUnused
    /\ AppUnused
    /\ PxUnused

build_inputs == <<user_prompt, context_data, build_history, system_prompt_override>>

\* An exception leaves the call.
BuildRaise(exception) ==
    /\ build_pc' = "raised"
    /\ build_raised' = exception
    /\ UNCHANGED <<messages_for_api, context_sections_for_llm,
                   tool_context_specific_parts>>

\* The step at `at` is over without an exception.
BuildGoto(at) == build_pc' = at /\ build_raised' = build_raised

\* Line 236.
BuildSystemMessage ==
    /\ build_pc = "start"
    /\ messages_for_api' =
          <<[role |-> PyStr(Word("system")),
             content |-> PyStr(SystemPromptContent(system_prompt_override))]>>
    /\ BuildGoto("history")
    /\ UNCHANGED <<build_inputs, context_sections_for_llm, tool_context_specific_parts>>

\* Lines 239-241.
BuildHistory_Reversed ==
    /\ build_pc = "history"
    /\ messages_for_api' = messages_for_api
          \o [i \in 1..Len(build_history) |->
                 ModelDump(build_history[Len(build_history) + 1 - i])]
    /\ BuildGoto("rag_code_snippets")
    /\ UNCHANGED <<build_inputs, context_sections_for_llm, tool_context_specific_parts>>

BuildHistory ==
    /\ build_pc = "history"
    /\ messages_for_api' = messages_for_api
          \o [i \in 1..Len(build_history) |-> ModelDump(build_history[i])]
    /\ BuildGoto("rag_code_snippets")
    /\ UNCHANGED <<build_inputs, context_sections_for_llm, tool_context_specific_parts>>

\* Lines 248-258.
RagSnippetsIncluded(v) ==
    /\ Truthy(v)
    /\ ~PyIn(PyStr(ErrorLiteral), v).value
    /\ ~PyIn(PyStr(NoSnippetsLiteral), v).value

BuildRagSnippets ==
    /\ build_pc = "rag_code_snippets"
    /\ LET rag_code_snippets == ContextGet(context_data, "rag_code_snippets")
       IN  IF Truthy(rag_code_snippets)
              /\ PyIn(PyStr(ErrorLiteral), rag_code_snippets).raised # None
           THEN BuildRaise(PyIn(PyStr(ErrorLiteral), rag_code_snippets).raised)
           ELSE /\ context_sections_for_llm' =
                      IF RagSnippetsIncluded(rag_code_snippets)
                      THEN Append(context_sections_for_llm, RagSection(rag_code_snippets))
                      ELSE context_sections_for_llm
                /\ BuildGoto("traceback")
                /\ UNCHANGED <<messages_for_api, tool_context_specific_parts>>
    /\ UNCHANGED build_inputs

\* Lines 260-277.
BuildTraceback ==
    /\ build_pc = "traceback"
    /\ LET user_captured_error == ContextGet(context_data, "pythonLastErrorTraceback")
           content == ErrorContentForLlm(user_captured_error)
       IN  IF Truthy(user_captured_error) /\ content.raised # None
           THEN BuildRaise(content.raised)
           ELSE /\ context_sections_for_llm' =
                      IF Truthy(user_captured_error)
                      THEN Append(context_sections_for_llm, TracebackSection(content.value))
                      ELSE context_sections_for_llm
                /\ BuildGoto("selectedElements")
                /\ UNCHANGED <<messages_for_api, tool_context_specific_parts>>
    /\ UNCHANGED build_inputs

\* Lines 279-314.
BuildSelectedElements ==
    /\ build_pc = "selectedElements"
    /\ LET selected_elements_data == ContextGet(context_data, "selectedElements")
           taken == Truthy(selected_elements_data)
                    /\ selected_elements_data.type = "list"
           elems == IF taken THEN DictElements(selected_elements_data) ELSE <<>>
           elements_details_for_llm ==
               [j \in 1..Len(elems) |-> ElementDetail(elems[j].i, elems[j].elem)]
       IN  IF \E j \in 1..Len(elems) : SeBrief(elems[j].elem).raised # None
           THEN BuildRaise("AttributeError")
           ELSE /\ tool_context_specific_parts' =
                      IF elements_details_for_llm # <<>>
                      THEN Append(tool_context_specific_parts,
                                  SelectedElementsSection(elements_details_for_llm))
                      ELSE tool_context_specific_parts
                /\ BuildGoto("uiHierarchy")
                /\ UNCHANGED <<messages_for_api, context_sections_for_llm>>
    /\ UNCHANGED build_inputs

\* Lines 316-322: cd_hier.get raises AttributeError unless the value is a
\* mapping, len raises TypeError for children that have no length.
HierarchyOutcome(cd_hier) ==
    IF cd_hier.type # "dict" THEN Raises("AttributeError")
    ELSE LET num_children == PyLen(DictGet(cd_hier, "children", PyList(<<>>)))
         IN  IF num_children.raised # None THEN num_children
             ELSE Ok(HierarchySection(DictGet(cd_hier, "name", PyStr(Word("N/A"))),
                                      num_children.value))

BuildHierarchy ==
    /\ build_pc = "uiHierarchy"
    /\ LET cd_hier == ContextGet(context_data, "uiHierarchy")
       IN  IF Truthy(cd_hier) /\ HierarchyOutcome(cd_hier).raised # None
           THEN BuildRaise(HierarchyOutcome(cd_hier).raised)
           ELSE /\ tool_context_specific_parts' =
                      IF Truthy(cd_hier)
                      THEN Append(tool_context_specific_parts,
                                  HierarchyOutcome(cd_hier).value)
                      ELSE tool_context_specific_parts
                /\ BuildGoto("pythonConsoleOutput")
                /\ UNCHANGED <<messages_for_api, context_sections_for_llm>>
    /\ UNCHANGED build_inputs

\* Lines 326-329: is_redundant.
IsRedundant_Never(user_captured_error, general_console_output) == Ok(FALSE)

IsRedundant(user_captured_error, general_console_output) ==
    IF ~Truthy(user_captured_error) THEN Ok(FALSE)
    ELSE IF user_captured_error = general_console_output THEN Ok(TRUE)
    ELSE PyIn(user_captured_error, general_console_output)

\* Lines 324-336.
ConsoleOutcome(user_captured_error, general_console_output) ==
    LET is_redundant == IsRedundant(user_captured_error, general_console_output)
        truncated_general_output == PyTail(general_console_output, MAX_GENERAL_CONSOLE_LEN)
    IN  IF is_redundant.raised # None THEN is_redundant
        ELSE IF is_redundant.value THEN Ok(<<>>)
        ELSE IF truncated_general_output.raised # None THEN truncated_general_output
        ELSE Ok(<<ConsoleSection(truncated_general_output.value)>>)

BuildConsole ==
    /\ build_pc = "pythonConsoleOutput"
    /\ LET general_console_output == ContextGet(context_data, "pythonConsoleOutput")
           outcome == ConsoleOutcome(ContextGet(context_data, "pythonLastErrorTraceback"),
                                     general_console_output)
       IN  IF Truthy(general_console_output) /\ outcome.raised # None
           THEN BuildRaise(outcome.raised)
           ELSE /\ tool_context_specific_parts' =
                      IF Truthy(general_console_output)
                      THEN tool_context_specific_parts \o outcome.value
                      ELSE tool_context_specific_parts
                /\ BuildGoto("pythonCode")
                /\ UNCHANGED <<messages_for_api, context_sections_for_llm>>
    /\ UNCHANGED build_inputs

\* Lines 338-341.
BuildCode ==
    /\ build_pc = "pythonCode"
    /\ LET cd_py_code == ContextGet(context_data, "pythonCode")
       IN  tool_context_specific_parts' =
              IF Truthy(cd_py_code)
              THEN Append(tool_context_specific_parts, CodeSection(cd_py_code))
              ELSE tool_context_specific_parts
    /\ BuildGoto("deviceInfo")
    /\ UNCHANGED <<build_inputs, messages_for_api, context_sections_for_llm>>

\* Lines 342-351.
BuildDeviceInfo ==
    /\ build_pc = "deviceInfo"
    /\ LET cd_dev_info == ContextGet(context_data, "deviceInfo")
           parts == IF Truthy(cd_dev_info)
                    THEN Append(tool_context_specific_parts, DeviceInfoSection(cd_dev_info))
                    ELSE tool_context_specific_parts
       IN  /\ tool_context_specific_parts' = parts
           /\ context_sections_for_llm' =
                 IF parts # <<>>
                 THEN Append(context_sections_for_llm, ToolContextSection(parts))
                 ELSE context_sections_for_llm
    /\ BuildGoto("user")
    /\ UNCHANGED <<build_inputs, messages_for_api>>

\* Lines 353-359.
BuildUserMessage ==
    /\ build_pc = "user"
    /\ messages_for_api' =
          Append(messages_for_api,
                 [role |-> PyStr(Word("user")),
                  content |-> PyStr(FullUserContent(context_sections_for_llm, user_prompt))])
    /\ BuildGoto("returned")
    /\ UNCHANGED <<build_inputs, context_sections_for_llm, tool_context_specific_parts>>

BuildNext ==
    \/ BuildSystemMessage /\ UNCHANGED <<run_vars, rag_vars, app_vars, px_vars>>
    \/ BuildHistory /\ UNCHANGED <<run_vars, rag_vars, app_vars, px_vars>>
    \/ BuildRagSnippets /\ UNCHANGED <<run_vars, rag_vars, app_vars, px_vars>>
    \/ BuildTraceback /\ UNCHANGED <<run_vars, rag_vars, app_vars, px_vars>>
    \/ BuildSelectedElements /\ UNCHANGED <<run_vars, rag_vars, app_vars, px_vars>>
    \/ BuildHierarchy /\ UNCHANGED <<run_vars, rag_vars, app_vars, px_vars>>
    \/ BuildConsole /\ UNCHANGED <<run_vars, rag_vars, app_vars, px_vars>>
    \/ BuildCode /\ UNCHANGED <<run_vars, rag_vars, app_vars, px_vars>>
    \/ BuildDeviceInfo /\ UNCHANGED <<run_vars, rag_vars, app_vars, px_vars>>
    \/ BuildUserMessage /\ UNCHANGED <<run_vars, rag_vars, app_vars, px_vars>>

BuildSpec == BuildInit /\ [][BuildNext]_vars

BuildReturned == build_pc = "returned"

\* ------------------------------------------------------------------------
\* C26 - whatever the prompt, the context and the history, the list the
\* builder returns has len(history) + 2 elements: first the one system
\* message (the override text when one is given, an empty override
\* counting as none, else the fixed text), then the history entries in
\* their original order with every field they carry, last a user message.
\* ------------------------------------------------------------------------
SameEntry(dumped, entry) ==
    /\ DOMAIN dumped = {f \in DOMAIN entry : entry[f] # PyNull}
    /\ \A f \in DOMAIN dumped : dumped[f] = entry[f]

C27_BuilderNeverRaises == build_pc # "raised"

\* ------------------------------------------------------------------------
\* Reading the user message
\* ------------------------------------------------------------------------

\* The recognized keys in the order of their sections, and the header
\* that opens the section of each.
SectionKeys ==
    <<"rag_code_snippets", "pythonLastErrorTraceback", "selectedElements",
      "uiHierarchy", "pythonConsoleOutput", "pythonCode", "deviceInfo">>

SectionHeader(key) ==
    CASE key = "rag_code_snippets" -> "rag_header"
      [] key = "pythonLastErrorTraceback" -> "tb_header"
      [] key = "selectedElements" -> "sel_header"
      [] key = "uiHierarchy" -> "hier_head"
      [] key = "pythonConsoleOutput" -> "console_header"
      [] key = "pythonCode" -> "code_header"
      [] key = "deviceInfo" -> "dev_header"

\* The user message of a call that has returned.
UserContent == Last(messages_for_api).content.text

\* The section headers of the user message, in the order they appear.
HeadersIn(t) ==
    LET headers == {SectionHeader(SectionKeys[i]) : i \in 1..Len(SectionKeys)}
        runs == SelectSeq(t, LAMBDA r : r.c \in headers)
    IN  [i \in 1..Len(runs) |-> runs[i].c]

\* t ends with the non-empty text s, decided on the runs: the last runs of
\* t are those of s, the first of them possibly longer.
EndsWithRuns(t, s) ==
    /\ Len(t) >= Len(s)
    /\ LET last == SubSeq(t, Len(t) - Len(s) + 1, Len(t))
       IN  /\ Tail(last) = Tail(s)
           /\ Head(last).c = Head(s).c
           /\ Head(last).n >= Head(s).n

\* The headers of the keys that satisfy keep, in the fixed order.
HeadersOf(keep(_)) ==
    LET keys == SelectSeq(SectionKeys, keep)
    IN  [i \in 1..Len(keys) |-> SectionHeader(keys[i])]

\* The key is present with a non-empty value.
PresentNonEmpty(key) == Truthy(context_data[key])

SectionWritten(key) ==
    /\ PresentNonEmpty(key)
    /\ key = "rag_code_snippets" =>
          /\ ~Contains(context_data[key].text, ErrorLiteral)
          /\ ~Contains(context_data[key].text, NoSnippetsLiteral)
    /\ key = "selectedElements" =>
          /\ context_data[key].type = "list"
          /\ \E i \in 1..Len(context_data[key].items) :
                context_data[key].items[i].type = "dict"
    /\ key = "pythonConsoleOutput" =>
          ~ /\ PresentNonEmpty("pythonLastErrorTraceback")
            /\ Contains(context_data[key].text,
                        context_data["pythonLastErrorTraceback"].text)

GivenTraceback == context_data["pythonLastErrorTraceback"]

\* The traceback step is over and no exception has left the call since.
TracebackStepDone ==
    build_pc \in {"selectedElements", "uiHierarchy", "pythonConsoleOutput",
                  "pythonCode", "deviceInfo", "user", "returned"}

\* The traceback sections written so far.
TracebackSections ==
    SelectSeq(context_sections_for_llm, LAMBDA s : Head(s).c = "tb_header")

\* The text between the opening "```text\n" and the closing "\n```" of a
\* traceback section.
InsertedTraceback(section) ==
    LET opening == TLen(TracebackSection(<<>>)) - TLen(TCat(NL, Fence))
    IN  TTake(TDrop(section, opening),
              TLen(section) - TLen(TracebackSection(<<>>)))

\* ------------------------------------------------------------------------
\* C29 - a traceback of more than 6000 characters is inserted in the
\* prompt as its first 2950 characters, the truncation marker and its
\* last 2950 characters, which is at most 6000 characters long; a
\* traceback of at most 6000 characters is inserted unchanged.
\* ------------------------------------------------------------------------
C29_TracebackBounded ==
    (TracebackStepDone /\ GivenTraceback.type = "str" /\ GivenTraceback.text # <<>>) =>
        /\ Len(TracebackSections) = 1
        /\ LET inserted == InsertedTraceback(TracebackSections[1])
               traceback == GivenTraceback.text
           IN  IF TLen(traceback) > 6000
               THEN /\ TLen(inserted) <= 6000
                    /\ inserted = TCat(TCat(TTake(traceback, 2950), TracebackMarker),
                                       TDrop(traceback, TLen(traceback) - 2950))
               ELSE inserted = traceback

C29_Witness ==
    /\ BuildReturned
    /\ GivenTraceback.type = "str"
    /\ TLen(GivenTraceback.text) = 6001
    /\ TLen(InsertedTraceback(TracebackSections[1])) = 5960
    /\ HeadersIn(UserContent) = <<"tb_header">>

\* ========================================================================
\* The wired endpoint: handle_llm_chat_stream and stream_deepseek_response
\* of app.py (lines 104-276)
\* ========================================================================

\* The events of the response stream.
\*   yield "data: <json string>"            a content delta
\*   yield "event: error"                    kind is the family of the text:
\*       "config"      LLM service is not configured (API key missing).
\*       "network"     Network issue contacting LLM: <e>
\*       "unexpected"  An unexpected error occurred with the LLM service: <e>
\*   yield "event: end-of-stream"
AppContent(text) == [ev |-> "content", text |-> text]

AppError(kind) == [ev |-> "error", kind |-> kind]

\* Line 196: the error event of a non-200 answer carries the status and
\* the body read at line 192.
AppApiError(status, body) ==
    [ev |-> "error", kind |-> "api", status |-> status, body |-> body]

AppEndOfStream == [ev |-> "end-of-stream"]

\* The content deltas a chunk may carry; None is a chunk without content.
AppDeltas == {"a", "b", None}

\* Lines that yield nothing: blank lines, lines that do not start with
\* "data: ", and data lines json.loads rejects (logged at line 225).
AppSilentLines == {"blank", "not_data", "bad_json"}

\* A data line whose JSON makes lines 209-213 raise something other than
\* JSONDecodeError or IndexError, such as {"choices": null}.
AppFatalLines == {"choices_null"}

AppInit ==
    /\ app_pc = "handler"
    /\ app_api_key \in BOOLEAN
    /\ app_events = <<>>
    /\ app_lines_read = 0
    /\ RunUnused
    /\ RagUnused
    /\ BuildUnused
    /\ PxUnused

\* The stream is over: the generator returned and the response is closed.
AppFinish(events) ==
    /\ app_pc' = "done"
    /\ app_events' = app_events \o events
    /\ UNCHANGED <<app_api_key, app_lines_read>>

\* Lines 260-266: without a key the handler answers with error_stream.
AppMissingApiKey ==
    /\ app_pc = "handler"
    /\ ~app_api_key
    /\ AppFinish(<<AppError("config")>>)

\* Lines 268-276 and 110-181: the handler returns the stream of
\* stream_deepseek_response, which builds the payload and opens the client.
AppStart ==
    /\ app_pc = "handler"
    /\ app_api_key
    /\ app_pc' = "calling"
    /\ UNCHANGED <<app_api_key, app_events, app_lines_read>>

\* Lines 188-190, status 200.
AppUpstreamCall ==
    /\ app_pc = "calling"
    /\ app_pc' = "streaming"
    /\ UNCHANGED <<app_api_key, app_events, app_lines_read>>

\* Lines 191-197: any other status yields one error event and returns.
AppUpstreamCallNon200(status, body) ==
    /\ app_pc = "calling"
    /\ AppFinish(<<AppApiError(status, body)>>)

\* Lines 238-241: client.stream raises httpx.RequestError.
AppConnectError ==
    /\ app_pc = "calling"
    /\ AppFinish(<<AppError("network")>>)

\* Lines 238-241: aiter_lines raises httpx.RequestError.
AppStreamNetworkError ==
    /\ app_pc = "streaming"
    /\ AppFinish(<<AppError("network")>>)

\* Lines 199-200, 204, 223-226: a line that yields nothing.
AppReadSilentLine(l) ==
    /\ app_pc = "streaming"
    /\ app_lines_read < MaxAppLines
    /\ app_lines_read' = app_lines_read + 1
    /\ UNCHANGED <<app_pc, app_api_key, app_events>>

\* Lines 204-215: a chunk; its content delta, if any, is forwarded.
AppReadChunk(delta) ==
    /\ app_pc = "streaming"
    /\ app_lines_read < MaxAppLines
    /\ app_lines_read' = app_lines_read + 1
    /\ app_events' = IF delta # None THEN Append(app_events, AppContent(delta))
                     ELSE app_events
    /\ UNCHANGED <<app_pc, app_api_key>>

\* Lines 242-247: an exception of the chunk handling that the inner except
\* does not name reaches the outer handler.
AppReadFatalLine(l) ==
    /\ app_pc = "streaming"
    /\ app_lines_read < MaxAppLines
    /\ AppFinish(<<AppError("unexpected")>>)

\* Lines 201-203: "data: [DONE]" yields end-of-stream and leaves the loop.
AppReadDone ==
    /\ app_pc = "streaming"
    /\ AppFinish(<<AppEndOfStream>>)

\* Line 199: the upstream closes the response and aiter_lines ends; the
\* generator returns without another event.
AppStreamClosed ==
    /\ app_pc = "streaming"
    /\ AppFinish(<<>>)

AppNext ==
    \/ AppMissingApiKey /\ UNCHANGED <<run_vars, rag_vars, build_vars, px_vars>>
    \/ AppStart /\ UNCHANGED <<run_vars, rag_vars, build_vars, px_vars>>
    \/ AppUpstreamCall /\ UNCHANGED <<run_vars, rag_vars, build_vars, px_vars>>
    \/ \E status \in ErrorStatuses, body \in ErrorBodies :
          AppUpstreamCallNon200(status, body)
          /\ UNCHANGED <<run_vars, rag_vars, build_vars, px_vars>>
    \/ AppConnectError /\ UNCHANGED <<run_vars, rag_vars, build_vars, px_vars>>
    \/ AppStreamNetworkError /\ UNCHANGED <<run_vars, rag_vars, build_vars, px_vars>>
    \/ \E l \in AppSilentLines :
          AppReadSilentLine(l) /\ UNCHANGED <<run_vars, rag_vars, build_vars, px_vars>>
    \/ \E delta \in AppDeltas :
          AppReadChunk(delta) /\ UNCHANGED <<run_vars, rag_vars, build_vars, px_vars>>
    \/ \E l \in AppFatalLines :
          AppReadFatalLine(l) /\ UNCHANGED <<run_vars, rag_vars, build_vars, px_vars>>
    \/ AppReadDone /\ UNCHANGED <<run_vars, rag_vars, build_vars, px_vars>>
    \/ AppStreamClosed /\ UNCHANGED <<run_vars, rag_vars, build_vars, px_vars>>

AppSpec == AppInit /\ [][AppNext]_vars

\* ------------------------------------------------------------------------
\* C30 - the response stream of the /api/llm/chat endpoint always ends
\* with an end-of-stream event: when the API key is missing, on a non-200
\* upstream status, on a network error, on an unexpected error, when the
\* upstream closes without the done sentinel and when it ends with it.
\* ------------------------------------------------------------------------
C30_StreamEndsWithEndOfStream ==
    app_pc = "done" =>
        /\ app_events # <<>>
        /\ Last(app_events) = AppEndOfStream

\* ------------------------------------------------------------------------
\* C31
\* ------------------------------------------------------------------------

\* The calls of the tool round whose arguments did not give a query, made
\* while the local  query  still held the query of an earlier call.
BadArgsAfterQuery ==
    { j \in 1..Len(trace) :
        /\ trace[j].ev = "exec"
        /\ trace[j].name = RAG_TOOL_NAME
        /\ ParseArgs(trace[j].arguments) = "bad_json"
        /\ \E i \in 1..(j - 1) : trace[i].ev = "rag" }

\* C31: the retrieval client is called for a requested call only with the
\* query parsed from that same call's arguments: every retrieval call
\* directly follows the execution of a call of the same iteration and id
\* whose arguments parse to a query, and carries exactly that query; a
\* call whose arguments fail to parse is never followed by a retrieval
\* call made with a query left over from an earlier call or iteration.
C31_QueryFromSameCall ==
    \A i \in 1..Len(trace) :
        trace[i].ev = "rag" =>
            /\ i > 1
            /\ trace[i - 1].ev = "exec"
            /\ trace[i - 1].iteration = trace[i].iteration
            /\ trace[i - 1].id = trace[i].id
            /\ ParseArgs(trace[i - 1].arguments) = "query"
            /\ trace[i].query = QueryOf(trace[i - 1].arguments)

\* A run in which a call with unparsable arguments was handled while the
\* local still held the query of an earlier iteration, and the round ended.
C31_Witness ==
    /\ BadArgsAfterQuery # {}
    /\ query # None
    /\ pc \in {"loop", "done"}

\* ------------------------------------------------------------------------
\* C32
\* ------------------------------------------------------------------------

\* C32: every tool result turn appended to the message list is sent to the
\* model in a later upstream call of the same run: once the generator has
\* stopped, every response that started a tool round is followed by a
\* later upstream call, and that call carried every tool turn of the list.
C32_ToolTurnsAreSent ==
    Stopped =>
        \A j \in ToolRounds :
            /\ FirstAfter("call", j) # 0
            /\ \A m \in 1..Len(messages) :
                   messages[m].role = "tool" =>
                       \E i \in 1..Len(trace) :
                           /\ trace[i].ev = "call"
                           /\ m <= Len(trace[i].messages)
                           /\ trace[i].messages[m] = messages[m]

\* The run returned at the loop limit right after a tool round whose
\* retrieval call was made and whose tool turn was appended.
C32_LoopLimitAfterToolRound ==
    /\ pc = "done"
    /\ Len(trace) > 3
    /\ trace[Len(trace)] = EosEvent("loop")
    /\ trace[Len(trace) - 2].ev = "rag"
    /\ messages[Len(messages)].role = "tool"

\* ------------------------------------------------------------------------
\* C33
\* ------------------------------------------------------------------------

\* C33: a retrieval call is made only while no upstream response stream
\* is open, and at most one upstream response stream is open at any time:
\* a step that calls the retrieval client starts and ends with the
\* response closed, a step that issues an upstream call starts with the
\* response of the earlier call closed, and the for loop of a tool round
\* only runs with the response closed.
C33_OneResponseAtATime ==
    [][ /\ Count("rag")' > Count("rag") => ~response_open /\ ~response_open'
        /\ Count("call")' > Count("call") => ~response_open
        /\ pc' = "tools" => ~response_open' ]_vars

\* The response of a second call is open after a tool round that called the
\* retrieval client.
C33_Witness ==
    /\ Count("rag") > 0
    /\ Count("call") = 2
    /\ response_open

\* ------------------------------------------------------------------------
\* C34
\* ------------------------------------------------------------------------

\* The ways an upstream call ends in an error.
ErrorEndings == {"non_200", "network_error", "unexpected_error"}

\* Positions of the responses that ended in an error.
FailedResponses ==
    {j \in 1..Len(trace) : trace[j].ev = "resp" /\ trace[j].how \in ErrorEndings}

\* C34: when an upstream call ends in an error (non-200 status, network
\* error or unexpected error), the tool calls accumulated so far in that
\* call are not executed, no retrieval call is made, and the message list
\* is left as it was when the call was issued.
C34_FailedCallLeavesMessages ==
    \A j \in FailedResponses :
        /\ \A i \in (j + 1)..Len(trace) : trace[i].ev \notin {"exec", "rag", "call"}
        /\ messages = MessagesBefore(j)

\* A call of a later iteration failed while reading the stream, after tool
\* calls had been accumulated in it.
C34_Witness ==
    \E j \in FailedResponses :
        /\ trace[j].tool_calls # <<>>
        /\ trace[LastBefore("call", j)].iteration > 1
        /\ Stopped

\* ------------------------------------------------------------------------
\* C35
\* ------------------------------------------------------------------------

\* C35: a chunk that is skipped as malformed (the handler of line 550
\* logged it) leaves the tool-call accumulation table unchanged, and every
\* entry that is executed was built from at least one merged fragment: no
\* executed call is the empty entry.
C35_SkippedChunkKeepsTable ==
    [][ /\ Count("chunk_error_logged")' > Count("chunk_error_logged")
               => tool_calls_to_process' = tool_calls_to_process
        /\ \A i \in 1..Len(trace') :
               trace'[i].ev = "exec" =>
                   ~(/\ trace'[i].id = EmptyToolCall.id
                     /\ trace'[i].name = EmptyToolCall.name
                     /\ trace'[i].arguments = EmptyToolCall.arguments) ]_vars

\* The empty entry left by a skipped fragment was handled by a tool round
\* and its tool turn was sent upstream.
C35_EmptyEntryExecuted ==
    /\ \E i \in 1..Len(trace) :
           /\ trace[i].ev = "exec"
           /\ trace[i].id = None
           /\ trace[i].name = None
    /\ \E i \in 1..Len(trace) :
           /\ trace[i].ev = "call"
           /\ \E m \in 1..Len(trace[i].messages) :
                  /\ trace[i].messages[m].role = "tool"
                  /\ trace[i].messages[m].content = UnknownToolContent(None)

\* ------------------------------------------------------------------------
\* C36
\* ------------------------------------------------------------------------

\* The concatenation of the content events logged at positions i..(j - 1).
RECURSIVE ForwardedContent(_, _)
ForwardedContent(i, j) ==
    IF i >= j THEN <<>>
    ELSE (IF trace[i].ev = "content" THEN trace[i].text ELSE <<>>)
         \o ForwardedContent(i + 1, j)

\* The table built from the lines logged at positions i..(j - 1) alone,
\* starting from the given table.
RECURSIVE TableFromLines(_, _, _)
TableFromLines(table, i, j) ==
    IF i >= j THEN table
    ELSE LET e == trace[i]
             merge == MergeDeltas(table, e.chunk.tool_calls)
             after == IF e.ev # "line" \/ e.chunk.kind # "chunk" THEN table
                      ELSE IF ~merge.ok \/ e.chunk.finish_reason = None THEN merge.table
                      ELSE AfterFinishReason(merge.table, e.chunk)
         IN  TableFromLines(after, i + 1, j)

\* The tool round of position j has appended its assistant turn.
AssistantTurnAppended(j) == Len(MessagesAfter(j)) > Len(MessagesBefore(j))

AssistantTurnOf(j) == MessagesAfter(j)[Len(MessagesBefore(j)) + 1]

\* C36: each upstream call starts with an empty tool-call table and empty
\* accumulated content: the assistant turn appended after iteration k has
\* as content exactly the concatenation of the content deltas forwarded
\* during iteration k (null when that is empty) and as tool_calls exactly
\* the table built, from an empty one, out of the lines received during
\* iteration k, never anything from an earlier iteration.
C36_AssistantTurnOfThisIteration ==
    \A j \in ToolRounds :
        AssistantTurnAppended(j) =>
            AssistantTurnOf(j) =
                AssistantMessage(ForwardedContent(LastBefore("call", j), j),
                                 TableFromLines(<<>>, LastBefore("call", j), j))

\* The assistant turn of a second iteration was appended after a first
\* iteration that had forwarded content and requested a tool; the two
\* turns differ.
C36_Witness ==
    \E j, k \in ToolRounds :
        /\ j < k
        /\ AssistantTurnAppended(j)
        /\ AssistantTurnAppended(k)
        /\ AssistantTurnOf(j).content # [kind |-> "null"]
        /\ AssistantTurnOf(j) # AssistantTurnOf(k)

\* ------------------------------------------------------------------------
\* Interactive code execution (utils/interactive_executor.py)
\*
\* run_interactive_python (router/device.py, lines 137-147) hands every
\* request to a thread of the default pool, so the executions interleave
\* statement by statement.  sys.stdout, sys.stderr and the dictionary
\* _file_contents_for_trace belong to the process; the StringIO, the locals
\* and the trace function (sys.settrace acts on the calling thread only)
\* belong to the execution.
\* ------------------------------------------------------------------------

Executions == 1..MaxExecutions

\* The streams sys.stdout / sys.stderr may be bound to.
OriginalStream(name) == [kind |-> "original", buffer |-> 0, prefix |-> name]

\* MockOutputStream(output_buffer, prefix) of the execution e.
MockOutputStream(e, prefix) == [kind |-> "mock", buffer |-> e, prefix |-> prefix]

\* A local that has not been assigned yet.
Unbound == [kind |-> "unbound", buffer |-> 0, prefix |-> "unbound"]

\* One line of user code: what the statement does, and its source text.
PrintLine(source, value) == [stmt |-> "print", source |-> source, value |-> <<value>>]

RaiseLine(source) == [stmt |-> "raise", source |-> source, value |-> <<>>]

QuitLine(source) == [stmt |-> "quit", source |-> source, value |-> <<>>]

ExprLine(source, value) == [stmt |-> "expr", source |-> source, value |-> <<value>>]

\* The code strings a request may carry.
Programs ==
    { <<PrintLine("print('a')", "a")>>,
      <<PrintLine("print('b')", "b"), RaiseLine("1/0")>>,
      <<QuitLine("raise QuitError()")>>,
      <<ExprLine("6*7", "42")>> }

\* One line of the returned string: its prefix and what follows it.
Entry(tag, text) == [tag |-> tag, text |-> text]

\* Lines 51-65: the source line the trace function shows, after rstrip.
\* The code is looked up in the process-wide dictionary.
GetlineForTrace(lineno) ==
    IF file_contents_for_trace # <<>> /\ lineno < Len(file_contents_for_trace)
    THEN file_contents_for_trace[lineno + 1].source
    ELSE ""

\* Lines 87-100: sys.stdout.write / sys.stderr.write of each text in turn
\* on one stream object.  A mock stream writes into the StringIO it was
\* built with; the original streams are not part of any result.
WriteTo(stream, texts) ==
    LET written == SelectSeq(texts, LAMBDA t : t # <<>>)
    IN  IF stream.kind = "mock"
        THEN [output_buffer EXCEPT
                 ![stream.buffer] = @ \o [i \in 1..Len(written) |->
                                             Entry(stream.prefix, written[i])]]
        ELSE output_buffer

\* print(x): the text and the line end are written by two calls of write
\* on the stream sys.stdout is bound to when print starts.
PrintTo(stream, text) == WriteTo(stream, <<text, <<"\n">>>>)

\* The text of lines 217-236 for an exception raised at a line.
TracebackText(lineno) == <<"Traceback", lineno + 1>>

PxInit ==
    /\ px_pc = [e \in Executions |-> "idle"]
    /\ code_string \in [Executions -> Programs]
    /\ file_contents_for_trace = <<>>
    /\ sys_stdout = OriginalStream("stdout")
    /\ sys_stderr = OriginalStream("stderr")
    /\ original_stdout = [e \in Executions |-> Unbound]
    /\ original_stderr = [e \in Executions |-> Unbound]
    /\ output_buffer = [e \in Executions |-> <<>>]
    /\ px_lineno = [e \in Executions |-> 0]
    /\ px_exception = [e \in Executions |-> None]
    /\ px_returned = [e \in Executions |-> <<>>]
    /\ RunUnused
    /\ RagUnused
    /\ BuildUnused
    /\ AppUnused

PxGoto(e, to) == px_pc' = [px_pc EXCEPT ![e] = to]

\* Lines 162-191.
PxStart(e) ==
    /\ px_pc[e] = "idle"
    /\ file_contents_for_trace' = code_string[e]
    /\ PxGoto(e, "save_stdout")
    /\ UNCHANGED <<code_string, sys_stdout, sys_stderr, original_stdout, original_stderr,
                   output_buffer, px_lineno, px_exception, px_returned>>

\* Line 76.
PxSaveStdout(e) ==
    /\ px_pc[e] = "save_stdout"
    /\ original_stdout' = [original_stdout EXCEPT ![e] = sys_stdout]
    /\ PxGoto(e, "save_stderr")
    /\ UNCHANGED <<code_string, file_contents_for_trace, sys_stdout, sys_stderr,
                   original_stderr, output_buffer, px_lineno, px_exception, px_returned>>

\* Line 77.
PxSaveStderr(e) ==
    /\ px_pc[e] = "save_stderr"
    /\ original_stderr' = [original_stderr EXCEPT ![e] = sys_stderr]
    /\ PxGoto(e, "set_stdout")
    /\ UNCHANGED <<code_string, file_contents_for_trace, sys_stdout, sys_stderr,
                   original_stdout, output_buffer, px_lineno, px_exception, px_returned>>

\* Line 106.
PxSetStdout(e) ==
    /\ px_pc[e] = "set_stdout"
    /\ sys_stdout' = MockOutputStream(e, "WRT:")
    /\ PxGoto(e, "set_stderr")
    /\ UNCHANGED <<code_string, file_contents_for_trace, sys_stderr, original_stdout,
                   original_stderr, output_buffer, px_lineno, px_exception, px_returned>>

\* Lines 107-112, 196-197: the with block is entered and the trace
\* function of the thread installed.
PxSetStderr(e) ==
    /\ px_pc[e] = "set_stderr"
    /\ sys_stderr' = MockOutputStream(e, "ERR:")
    /\ PxGoto(e, "trace")
    /\ UNCHANGED <<code_string, file_contents_for_trace, sys_stdout, original_stdout,
                   original_stderr, output_buffer, px_lineno, px_exception, px_returned>>

\* Lines 123-143: the line event of the next line of the code.
PxTraceLine(e) ==
    /\ px_pc[e] = "trace"
    /\ px_lineno[e] < Len(code_string[e])
    /\ output_buffer' =
          [output_buffer EXCEPT
              ![e] = @ \o <<Entry("LNO:", <<px_lineno[e]>>),
                            Entry("DBG:", <<px_lineno[e], GetlineForTrace(px_lineno[e])>>)>>]
    /\ PxGoto(e, "line")
    /\ UNCHANGED <<code_string, file_contents_for_trace, sys_stdout, sys_stderr,
                   original_stdout, original_stderr, px_lineno, px_exception, px_returned>>

\* Line 200 (lines 30-48): the traced line runs.
PxRunLine(e) ==
    /\ px_pc[e] = "line"
    /\ LET line == code_string[e][px_lineno[e] + 1]
       IN  /\ output_buffer' = IF line.stmt = "print" THEN PrintTo(sys_stdout, line.value)
                               ELSE output_buffer
           /\ px_exception' = [px_exception EXCEPT
                                  ![e] = IF line.stmt = "raise" THEN "Exception"
                                         ELSE IF line.stmt = "quit" THEN "QuitError"
                                         ELSE None]
           /\ PxGoto(e, IF line.stmt \in {"raise", "quit"} THEN "restore_stdout"
                        ELSE "trace")
           /\ px_lineno' = [px_lineno EXCEPT
                               ![e] = IF line.stmt \in {"raise", "quit"} THEN @ ELSE @ + 1]
    /\ UNCHANGED <<code_string, file_contents_for_trace, sys_stdout, sys_stderr,
                   original_stdout, original_stderr, px_returned>>

\* Lines 200-205: the code has run to its end; the value of an expression
\* is printed.
PxCodeDone(e) ==
    /\ px_pc[e] = "trace"
    /\ px_lineno[e] = Len(code_string[e])
    /\ LET last == code_string[e][Len(code_string[e])]
       IN  output_buffer' = IF Len(code_string[e]) = 1 /\ last.stmt = "expr"
                            THEN PrintTo(sys_stdout, last.value)
                            ELSE output_buffer
    /\ PxGoto(e, "restore_stdout")
    /\ UNCHANGED <<code_string, file_contents_for_trace, sys_stdout, sys_stderr,
                   original_stdout, original_stderr, px_lineno, px_exception, px_returned>>

\* Line 114.
PxRestoreStdout(e) ==
    /\ px_pc[e] = "restore_stdout"
    /\ sys_stdout' = original_stdout[e]
    /\ PxGoto(e, "restore_stderr")
    /\ UNCHANGED <<code_string, file_contents_for_trace, sys_stderr, original_stdout,
                   original_stderr, output_buffer, px_lineno, px_exception, px_returned>>

\* Line 115: the with block of line 195 is left.
PxRestoreStderr(e) ==
    /\ px_pc[e] = "restore_stderr"
    /\ sys_stderr' = original_stderr[e]
    /\ PxGoto(e, IF px_exception[e] = None THEN "finally" ELSE "except")
    /\ UNCHANGED <<code_string, file_contents_for_trace, sys_stdout, original_stdout,
                   original_stderr, output_buffer, px_lineno, px_exception, px_returned>>

\* Lines 207-210.
PxExceptQuit(e) ==
    /\ px_pc[e] = "except"
    /\ px_exception[e] = "QuitError"
    /\ output_buffer' = [output_buffer EXCEPT
                            ![e] = @ \o <<Entry("DBG:", <<"QuitError()">>),
                                          Entry("QUIT", <<>>)>>]
    /\ PxGoto(e, "finally")
    /\ UNCHANGED <<code_string, file_contents_for_trace, sys_stdout, sys_stderr,
                   original_stdout, original_stderr, px_lineno, px_exception, px_returned>>

\* Lines 211-236: print of the formatted traceback, after the with block
\* has been left.
PxExceptException(e) ==
    /\ px_pc[e] = "except"
    /\ px_exception[e] = "Exception"
    /\ output_buffer' = PrintTo(sys_stdout, TracebackText(px_lineno[e]))
    /\ PxGoto(e, "finally")
    /\ UNCHANGED <<code_string, file_contents_for_trace, sys_stdout, sys_stderr,
                   original_stdout, original_stderr, px_lineno, px_exception, px_returned>>

\* Lines 238-245.
PxFinally(e) ==
    /\ px_pc[e] = "finally"
    /\ output_buffer' = [output_buffer EXCEPT ![e] = Append(@, Entry("EOF:", <<>>))]
    /\ PxGoto(e, "return")
    /\ UNCHANGED <<code_string, file_contents_for_trace, sys_stdout, sys_stderr,
                   original_stdout, original_stderr, px_lineno, px_exception, px_returned>>

\* Line 251.
PxReturn(e) ==
    /\ px_pc[e] = "return"
    /\ px_returned' = [px_returned EXCEPT ![e] = output_buffer[e]]
    /\ PxGoto(e, "returned")
    /\ UNCHANGED <<code_string, file_contents_for_trace, sys_stdout, sys_stderr,
                   original_stdout, original_stderr, output_buffer, px_lineno,
                   px_exception>>

PxNext ==
    \/ \E e \in Executions : PxStart(e) /\ UNCHANGED <<run_vars, rag_vars, build_vars, app_vars>>
    \/ \E e \in Executions : PxSaveStdout(e) /\ UNCHANGED <<run_vars, rag_vars, build_vars, app_vars>>
    \/ \E e \in Executions : PxSaveStderr(e) /\ UNCHANGED <<run_vars, rag_vars, build_vars, app_vars>>
    \/ \E e \in Executions : PxSetStdout(e) /\ UNCHANGED <<run_vars, rag_vars, build_vars, app_vars>>
    \/ \E e \in Executions : PxSetStderr(e) /\ UNCHANGED <<run_vars, rag_vars, build_vars, app_vars>>
    \/ \E e \in Executions : PxTraceLine(e) /\ UNCHANGED <<run_vars, rag_vars, build_vars, app_vars>>
    \/ \E e \in Executions : PxRunLine(e) /\ UNCHANGED <<run_vars, rag_vars, build_vars, app_vars>>
    \/ \E e \in Executions : PxCodeDone(e) /\ UNCHANGED <<run_vars, rag_vars, build_vars, app_vars>>
    \/ \E e \in Executions : PxRestoreStdout(e) /\ UNCHANGED <<run_vars, rag_vars, build_vars, app_vars>>
    \/ \E e \in Executions : PxRestoreStderr(e) /\ UNCHANGED <<run_vars, rag_vars, build_vars, app_vars>>
    \/ \E e \in Executions : PxExceptQuit(e) /\ UNCHANGED <<run_vars, rag_vars, build_vars, app_vars>>
    \/ \E e \in Executions : PxExceptException(e) /\ UNCHANGED <<run_vars, rag_vars, build_vars, app_vars>>
    \/ \E e \in Executions : PxFinally(e) /\ UNCHANGED <<run_vars, rag_vars, build_vars, app_vars>>
    \/ \E e \in Executions : PxReturn(e) /\ UNCHANGED <<run_vars, rag_vars, build_vars, app_vars>>

PxSpec == PxInit /\ [][PxNext]_vars

\* ------------------------------------------------------------------------
\* C37
\* ------------------------------------------------------------------------

\* The texts the code of execution e writes through print, with the line
\* end that follows each of them and the traceback of its own exception.
OwnTexts(e) ==
    { code_string[e][i].value :
         i \in {k \in 1..Len(code_string[e]) : code_string[e][k].stmt \in {"print", "expr"}} }
    \cup { TracebackText(i - 1) :
              i \in {k \in 1..Len(code_string[e]) : code_string[e][k].stmt = "raise"} }
    \cup { <<"\n">> }

\* The trace lines that show the code of execution e.
OwnTraceLines(e) ==
    { Entry("DBG:", <<i - 1, code_string[e][i].source>>) : i \in 1..Len(code_string[e]) }
    \cup { Entry("DBG:", <<"QuitError()">>) }

PxReturned(e) == px_pc[e] = "returned"

\* C37: when executions of execute_interactive_code overlap, the string
\* returned by each execution contains only the output written by its own
\* code and trace lines showing its own source text, and ends with exactly
\* one EOF line.
C37_ResultHoldsOwnOutputOnly ==
    \A e \in Executions :
        PxReturned(e) =>
            LET r == px_returned[e]
            IN  /\ \A i \in 1..Len(r) :
                       /\ r[i].tag \in {"WRT:", "ERR:"} => r[i].text \in OwnTexts(e)
                       /\ r[i].tag = "DBG:" => r[i] \in OwnTraceLines(e)
                /\ Len(r) > 0
                /\ r[Len(r)].tag = "EOF:"
                /\ Len(SelectSeq(r, LAMBDA x : x.tag = "EOF:")) = 1

\* An execution returned a result that shows a source line of the other
\* execution's code in one of its trace lines.
C37_ForeignSourceLine ==
    \E e \in Executions :
        /\ PxReturned(e)
        /\ \E i \in 1..Len(px_returned[e]) :
               /\ px_returned[e][i].tag = "DBG:"
               /\ px_returned[e][i] \notin OwnTraceLines(e)

\* An execution returned a result that holds a text printed by the other
\* execution's code.
C37_ForeignOutput ==
    \E e \in Executions :
        /\ PxReturned(e)
        /\ \E i \in 1..Len(px_returned[e]) :
               /\ px_returned[e][i].tag = "WRT:"
               /\ px_returned[e][i].text \notin OwnTexts(e)

\* An execution returned a result with a line after its EOF line.
C37_LineAfterEof ==
    \E e \in Executions :
        /\ PxReturned(e)
        /\ px_returned[e][Len(px_returned[e])].tag # "EOF:"

\* ------------------------------------------------------------------------
\* C38
\* ------------------------------------------------------------------------

PxStarted(e) == px_pc[e] # "idle"

\* C38: once every started execution of execute_interactive_code has
\* finished, sys.stdout and sys.stderr are again the streams that were
\* installed before the first of them started.
C38_StreamsRestored ==
    (/\ \E e \in Executions : PxStarted(e)
     /\ \A e \in Executions : PxStarted(e) => PxReturned(e))
        => /\ sys_stdout = OriginalStream("stdout")
           /\ sys_stderr = OriginalStream("stderr")

\* Both executions have returned and sys.stdout is still bound to the mock
\* stream of one of them.
C38_MockLeftInstalled ==
    /\ \A e \in Executions : PxReturned(e)
    /\ sys_stdout.kind = "mock"

\* The streams are restored when every execution saved the original
\* streams at lines 76-77 (as executions that do not overlap do).
C38_RestoredWhenOriginalsSaved ==
    (/\ \A e \in Executions : PxReturned(e)
     /\ \A e \in Executions : original_stdout[e] = OriginalStream("stdout")
     /\ \A e \in Executions : original_stderr[e] = OriginalStream("stderr"))
        => /\ sys_stdout = OriginalStream("stdout")
           /\ sys_stderr = OriginalStream("stderr")

\* ------------------------------------------------------------------------
\* C39
\* ------------------------------------------------------------------------

\* The snippets the for loop has formatted so far.
FormattedSnippets ==
    IF rag_pc \in {"loop", "returned"} /\ rag_env = "results" THEN 1..rag_i ELSE {}

\* C39: for every top_k >= 1 and every snippet text, the text inserted in
\* the retrieval block after per-snippet truncation has length at most
\* 7000 // top_k, and it is a prefix of the original text followed by the
\* truncation marker whenever the original was longer than that bound.
C39_SnippetWithinBound ==
    \A i \in FormattedSnippets :
        LET text == results[i]
            inserted == InsertedText(rag_impl, text, top_k)
            marker == SnippetMarker(rag_impl)
        IN  /\ TLen(inserted) <= MaxIndividualSnippetLen(top_k)
            /\ TLen(text) > MaxIndividualSnippetLen(top_k) =>
                   /\ TLen(inserted) >= TLen(marker)
                   /\ inserted = TCat(TTake(text, TLen(inserted) - TLen(marker)), marker)

\* A snippet longer than 7000 // top_k was formatted by llm_service.py with
\* a top_k that leaves less than 50 characters per snippet, and the text
\* inserted is longer than the bound.
C39_NegativeSlice ==
    \E i \in FormattedSnippets :
        /\ rag_impl = "llm_service"
        /\ MaxIndividualSnippetLen(top_k) < 50
        /\ TLen(results[i]) > MaxIndividualSnippetLen(top_k)
        /\ TLen(InsertedText(rag_impl, results[i], top_k)) > MaxIndividualSnippetLen(top_k)

\* With the default top_k of 5 every formatted snippet is within the bound.
C39_WithinBoundForDefaultTopK ==
    top_k = 5 /\ rag_impl = "llm_service" =>
        \A i \in FormattedSnippets :
            TLen(InsertedText(rag_impl, results[i], top_k)) <= MaxIndividualSnippetLen(top_k)

====
